---- MODULE Spec2Model ----
(***************************************************************************)
(* Trading_Backtester: the v11 execution engine (backtest_with_events),    *)
(* its event model and the wire conversion, and the v9 replay cursor       *)
(* (EventStream) over a wire event log.                                    *)
(*                                                                         *)
(* Python floats are IEEE 754 binary64 values <<sign, exponent, mantissa>> *)
(* and +, -, *, / round to nearest, ties to even, as CPython computes      *)
(* them.  Times are integers; bar i of the small price world has           *)
(* time i.  The for-loop over df.iterrows() sees the rows one at a time,   *)
(* so the rows are drawn one at a time as the loop reaches them.           *)
(***************************************************************************)
EXTENDS Integers, Sequences, FiniteSets, TLC

VARIABLES
    cfg,              \* BacktestConfig of the run
    emit_events,      \* the emit_events argument
    sig_input,        \* the signals argument as passed by the caller
    signals,          \* signals after sorted(signals, key=time)
    df,               \* the rows of df the loop has reached so far
    sig_i,            \* index of the next signal to consume (0-based)
    equity, curve, trades, internal_events,
    side, entry_time, entry_price, size, stop, take, best,
    pending_entry, pending_exit,
    pc,               \* position of the run inside backtest_with_events
    wire_events,      \* the returned wire event list (set on return)
    events,           \* EventStream.events
    cursor,           \* EventStream.cursor.index
    last_call,        \* the most recent call made on the EventStream
    cursors,          \* cursor.index of each EventStream built over one shared list
    results,          \* what each of those streams returned when last queried
    caller,           \* the stream and operation of the most recent call
    first_run,        \* inputs and return value of an earlier engine call
    strategy_trades,  \* the list returned by the strategy's run()
    surface_i,        \* StrategySurface.run: items of that list processed
    out,              \* StrategySurface.run: the list out
    surface_pc,       \* StrategySurface.run: looping, returned or raised
    written,          \* the event dicts passed to dump_events_jsonl
    file,             \* the lines of the JSONL file
    loaded            \* the list returned by load_events_jsonl

vars == <<cfg, emit_events, sig_input, signals, df, sig_i, equity, curve,
          trades, internal_events, side, entry_time, entry_price, size,
          stop, take, best, pending_entry, pending_exit, pc, wire_events,
          events, cursor, last_call, cursors, results, caller, first_run,
          strategy_trades, surface_i, out, surface_pc, written, file, loaded>>

posVars == <<side, entry_time, entry_price, size, stop, take, best>>

replayVars == <<events, cursor, last_call>>

sharedVars == <<cursors, results, caller>>

rerunVars == <<first_run>>

surfaceVars == <<strategy_trades, surface_i, out, surface_pc>>

jsonlVars == <<written, file, loaded>>

-----------------------------------------------------------------------------
(* Bounds of the explored inputs *)

MaxBars == 4
MaxSignals == 2

-----------------------------------------------------------------------------
(* Python float arithmetic: IEEE 754 binary64, round to nearest, ties to even *)

\* A float is <<sign, exp, mant>> and stands for (-1)^sign * M * 2^exp, where
\* M is the number whose digits in base 2^14 are mant[1] (lowest) .. mant[4].
\* A float other than zero has 2^52 <= M < 2^53; zero has M = 0 and keeps
\* its sign. Infinities, NaN and subnormal numbers do not occur: every amount
\* of a run lies between 1e-9 and 1e12 in magnitude.
Base == 2 ^ 14

\* Natural numbers of any size: digits in base 2^14, lowest first, no
\* leading zero digit
Limb(x, i) == IF i >= 1 /\ i <= Len(x) THEN x[i] ELSE 0

RECURSIVE BigNorm(_)
BigNorm(x) ==
    IF x # <<>> /\ x[Len(x)] = 0 THEN BigNorm(SubSeq(x, 1, Len(x) - 1)) ELSE x

RECURSIVE BigAddFrom(_, _, _, _)
BigAddFrom(x, y, i, cy) ==
    IF i > Len(x) /\ i > Len(y) THEN (IF cy = 0 THEN <<>> ELSE <<cy>>)
    ELSE LET s == Limb(x, i) + Limb(y, i) + cy
         IN  <<s % Base>> \o BigAddFrom(x, y, i + 1, s \div Base)

BigAdd(x, y) == BigAddFrom(x, y, 1, 0)

\* x - y for x >= y, digit by digit with borrow
RECURSIVE BigSubFrom(_, _, _, _)
BigSubFrom(x, y, i, bw) ==
    IF i > Len(x) THEN <<>>
    ELSE LET d == x[i] - Limb(y, i) - bw
         IN  <<d % Base>> \o BigSubFrom(x, y, i + 1, IF d < 0 THEN 1 ELSE 0)

BigSub(x, y) == BigNorm(BigSubFrom(x, y, 1, 0))

\* x * f for a small factor f
RECURSIVE BigScaleFrom(_, _, _, _)
BigScaleFrom(x, f, i, cy) ==
    IF i > Len(x) THEN (IF cy = 0 THEN <<>> ELSE <<cy>>)
    ELSE LET s == x[i] * f + cy
         IN  <<s % Base>> \o BigScaleFrom(x, f, i + 1, s \div Base)

BigScale(x, f) == BigScaleFrom(x, f, 1, 0)

\* x * y for x of at most four digits
RECURSIVE BigMulFrom(_, _, _, _)
BigMulFrom(x, y, k, cy) ==
    IF k > Len(x) + Len(y) THEN <<>>
    ELSE LET s == cy + Limb(x, 1) * Limb(y, k) + Limb(x, 2) * Limb(y, k - 1)
                     + Limb(x, 3) * Limb(y, k - 2) + Limb(x, 4) * Limb(y, k - 3)
         IN  <<s % Base>> \o BigMulFrom(x, y, k + 1, s \div Base)

BigMul(x, y) == BigNorm(BigMulFrom(x, y, 1, 0))

\* x * 2^n and floor(x / 2^n)
BigShl(x, n) ==
    IF x = <<>> THEN <<>>
    ELSE [i \in 1..(n \div 14) |-> 0] \o BigScale(x, 2 ^ (n % 14))

BigShr(x, n) ==
    LET q == n \div 14
        lo == 2 ^ (n % 14)
        hi == 2 ^ (14 - (n % 14))
    IN  BigNorm([i \in 1..(Len(x) - q) |->
                    (x[i + q] \div lo) + (Limb(x, i + q + 1) % lo) * hi])

\* Number of binary digits, binary digit number k (from 0), and whether
\* the k lowest binary digits are all zero
RECURSIVE BitLen(_)
BitLen(n) == IF n = 0 THEN 0 ELSE 1 + BitLen(n \div 2)

BigBits(x) == IF x = <<>> THEN 0 ELSE 14 * (Len(x) - 1) + BitLen(x[Len(x)])

BigBit(x, k) == (Limb(x, k \div 14 + 1) \div (2 ^ (k % 14))) % 2

BigLowZero(x, k) ==
    /\ \A i \in 1..(k \div 14) : Limb(x, i) = 0
    /\ Limb(x, k \div 14 + 1) % (2 ^ (k % 14)) = 0

\* Comparison of two numbers of at most five digits: negative, 0 or positive
BigCmp(x, y) ==
    IF Limb(x, 5) # Limb(y, 5) THEN Limb(x, 5) - Limb(y, 5)
    ELSE IF Limb(x, 4) # Limb(y, 4) THEN Limb(x, 4) - Limb(y, 4)
    ELSE IF Limb(x, 3) # Limb(y, 3) THEN Limb(x, 3) - Limb(y, 3)
    ELSE IF Limb(x, 2) # Limb(y, 2) THEN Limb(x, 2) - Limb(y, 2)
    ELSE Limb(x, 1) - Limb(y, 1)

Mant(x) == [i \in 1..4 |-> Limb(x, i)]

FloatZero(sign) == <<sign, 0, <<0, 0, 0, 0>>>>
IsZero(a) == a[3] = <<0, 0, 0, 0>>

\* The float of sign, mantissa q and exponent e, for q of 53 binary digits
\* or, after a rounding that carried, 54
Carried(sign, q, e) ==
    IF BigBits(q) = 54 THEN <<sign, e + 1, Mant(BigShr(q, 1))>>
    ELSE <<sign, e, Mant(q)>>

\* Whether big, cut to q by dropping its sh lowest binary digits, rounds up:
\* the highest dropped digit is 1 and a lower one is too, or q is odd
RoundsUp(big, sh, q) ==
    /\ BigBit(big, sh - 1) = 1
    /\ (~BigLowZero(big, sh - 1) \/ q[1] % 2 = 1)

RoundDropped(sign, big, e, sh, q) ==
    Carried(sign, IF RoundsUp(big, sh, q) THEN BigAdd(q, <<1>>) ELSE q, e + sh)

RoundBits(sign, big, e, n) ==
    IF n <= 53 THEN <<sign, e - (53 - n), Mant(BigShl(big, 53 - n))>>
    ELSE RoundDropped(sign, big, e, n - 53, BigShr(big, n - 53))

\* The float nearest to (-1)^sign * big * 2^e, ties to the even mantissa
RoundToFloat(sign, big, e) ==
    IF big = <<>> THEN FloatZero(sign) ELSE RoundBits(sign, big, e, BigBits(big))

Abs(x) == IF x < 0 THEN -x ELSE x

\* float(n) for an int n: an int has an exact float
FloatOfInt(n) ==
    RoundToFloat(IF n < 0 THEN 1 ELSE 0,
                 BigNorm(<<Abs(n) % Base, (Abs(n) \div Base) % Base,
                           Abs(n) \div (Base * Base)>>), 0)

\* The floats of the ints from 0 to 10000, computed once
FloatTable == [n \in 0..(10 ^ 4) |-> FloatOfInt(n)]

R(n) == IF n \in DOMAIN FloatTable THEN FloatTable[n] ELSE FloatOfInt(n)

\* -a
RNeg(a) == <<1 - a[1], a[2], a[3]>>

\* Comparison of the magnitudes of two floats: negative, 0 or positive
MagCmp(a, b) ==
    IF IsZero(a) \/ IsZero(b)
    THEN (IF IsZero(a) /\ IsZero(b) THEN 0 ELSE IF IsZero(a) THEN -1 ELSE 1)
    ELSE IF a[2] # b[2] THEN a[2] - b[2]
    ELSE BigCmp(a[3], b[3])

\* x + y or x - y (x >= y) of two mantissas brought to the exponent e, rounded
AddAligned(sign, x, y, subtract, e) ==
    RoundToFloat(sign, IF subtract THEN BigSub(x, y) ELSE BigAdd(x, y), e)

\* |a| + |b| or |a| - |b| for |a| >= |b| > 0, rounded, with the sign of a.
\* A b more than 64 binary places below a does not change the result.
AddMagnitudes(a, b, subtract) ==
    IF a[2] - b[2] > 64 THEN a
    ELSE AddAligned(a[1], BigShl(a[3], a[2] - b[2]), BigNorm(b[3]), subtract, b[2])

\* a + b for a and b other than zero, cm comparing their magnitudes: the
\* sum has the sign of the larger one, and equal magnitudes of opposite
\* signs give +0.0
AddOrdered(a, b, cm) ==
    IF cm = 0 /\ a[1] # b[1] THEN FloatZero(0)
    ELSE AddMagnitudes(IF cm >= 0 THEN a ELSE b, IF cm >= 0 THEN b ELSE a,
                       a[1] # b[1])

\* a + b
RAdd(a, b) ==
    IF IsZero(a)
    THEN (IF IsZero(b) THEN FloatZero(IF a[1] = 1 /\ b[1] = 1 THEN 1 ELSE 0) ELSE b)
    ELSE IF IsZero(b) THEN a
    ELSE AddOrdered(a, b, MagCmp(a, b))

\* a - b
RSub(a, b) == RAdd(a, RNeg(b))

\* a * b
RMul(a, b) ==
    IF IsZero(a) \/ IsZero(b) THEN FloatZero((a[1] + b[1]) % 2)
    ELSE RoundToFloat((a[1] + b[1]) % 2, BigMul(a[3], b[3]), a[2] + b[2])

\* The quotient digit floor(rr / den), at most two below its estimate
QuotientDigit(rr, den, est) ==
    IF BigCmp(BigScale(den, est), rr) <= 0 THEN est
    ELSE IF BigCmp(BigScale(den, est - 1), rr) <= 0 THEN est - 1
    ELSE est - 2

\* <<digit, remainder>> of rr by den for the quotient digit dg
DivReduce(rr, den, dg) == <<dg, Mant(BigSubFrom(rr, BigScale(den, dg), 1, 0))>>

\* The estimate of a quotient digit from the two highest digits of rr
DigitEstimate(est) == IF est > Base - 1 THEN Base - 1 ELSE est

DivDigit(rr, den) ==
    DivReduce(rr, den,
              QuotientDigit(rr, den,
                            DigitEstimate((rr[5] * Base + rr[4]) \div den[4])))

\* One step of the long division in base 2^14 of rem by den, for rem < den
\* of four digits and den of four digits with den[4] >= 2^13:
\* <<digit, next remainder>>
DivStep(rem, den) == DivDigit(<<0>> \o rem, den)

\* k more steps of the long division: <<digits, lowest first, remainder>>
RECURSIVE DivDigits(_, _, _, _)
DivNext(step, den, k, q) == DivDigits(step[2], den, k - 1, <<step[1]>> \o q)
DivDigits(rem, den, k, q) ==
    IF k = 0 THEN <<q, rem>> ELSE DivNext(DivStep(rem, den), den, k, q)

\* What a / 0.0 leaves in place of a float: it raises ZeroDivisionError
ZeroDivisionError == <<0, 2 ^ 10, <<1, 0, 0, 0>>>>

\* a / b: 57 binary digits of the quotient and one more that says whether a
\* remainder is left, rounded
DivRound(sign, res, e) ==
    RoundToFloat(sign,
                 BigNorm(BigAdd(BigScale(res[1], 2),
                                <<IF res[2] = <<0, 0, 0, 0>> THEN 0 ELSE 1>>)),
                 e)

DivFrom(sign, num, den, e, first) ==
    DivRound(sign,
             DivDigits(IF first THEN Mant(BigSubFrom(num, den, 1, 0)) ELSE num,
                       den, 4, <<IF first THEN 1 ELSE 0>>),
             e)

DivMantissas(sign, num, den, e) == DivFrom(sign, num, den, e, BigCmp(num, den) >= 0)

RDiv(a, b) ==
    IF IsZero(b) THEN ZeroDivisionError
    ELSE IF IsZero(a) THEN FloatZero((a[1] + b[1]) % 2)
    ELSE DivMantissas((a[1] + b[1]) % 2, Mant(BigScale(a[3], 8)),
                      Mant(BigScale(b[3], 8)), a[2] - b[2] - 57)

\* The float literal n/d of two ints, such as 0.01 for Rat(1, 100): the
\* float nearest to the quotient
Rat(n, d) == RDiv(R(n), R(d))

\* The largest finite float is (2^53 - 1) * 2^971
IsFinite(a) == a[2] <= 971

\* a == b, a < b, a <= b
REq(a, b) == (IsZero(a) /\ IsZero(b)) \/ a = b
RLt(a, b) ==
    IF IsZero(a) /\ IsZero(b) THEN FALSE
    ELSE IF a[1] # b[1] THEN a[1] = 1
    ELSE MagCmp(IF a[1] = 0 THEN a ELSE b, IF a[1] = 0 THEN b ELSE a) < 0
RLe(a, b) == ~RLt(b, a)

\* max(a, b), min(a, b): the first argument unless the second is beyond it
RMax(a, b) == IF RLt(a, b) THEN b ELSE a
RMin(a, b) == IF RLt(b, a) THEN b ELSE a

\* 1e-9, the clamp of the stop distance in _risk_size
EpsDen == 1000000000
Eps == Rat(1, EpsDen)

-----------------------------------------------------------------------------
(* None values *)

None == "None"               \* None where the other values are strings
NoOrder == [none |-> TRUE]   \* None where the other values are dicts
NoTime == -1                 \* None where the other values are times
NoFloat == <<>>              \* None where the other values are floats
NoCall == [op |-> "none", arg |-> 0]   \* no call made on the stream yet
NoCaller == [stream |-> "none", op |-> "none"]
NoResult == [index |-> -1, views |-> <<>>, now |-> NoTime]   \* stream not queried yet
NoRun == [none |-> TRUE]     \* no earlier engine call

\* No streams share a list, no strategy surface runs, no file is written
SharedIdle == cursors = <<>> /\ results = <<>> /\ caller = NoCaller

SurfaceIdle ==
    strategy_trades = <<>> /\ surface_i = 0 /\ out = <<>> /\ surface_pc = "idle"

JsonlIdle == written = <<>> /\ file = <<>> /\ loaded = <<>>

-----------------------------------------------------------------------------
(* Inputs: configurations, bar rows and signal lists *)

\* BacktestConfig() with every field at its default
DefaultCfg ==
    [initial_equity |-> R(100000), risk_per_trade |-> Rat(1, 100),
     stop_loss_pct |-> Rat(1, 100), take_profit_pct |-> Rat(1, 50),
     trailing_pct |-> R(0), allow_reverse |-> TRUE,
     entry_slippage_bps |-> R(0), exit_slippage_bps |-> R(0),
     entry_latency_bars |-> 0, exit_latency_bars |-> 0]

Latencies == {0, 1}
SlippageBps == {0, 1000}

\* (trailing_pct, allow_reverse) pairs explored on the small price world
ExitModes == {<<R(0), TRUE>>, <<R(0), FALSE>>, <<Rat(1, 20), TRUE>>}

\* Configurations explored on the small price world (prices around 10):
\* 10% risk and stop, 20% take, optional 5% trailing, optional 10% slippage.
SmallCfgs ==
    { [initial_equity |-> R(1000), risk_per_trade |-> Rat(1, 10),
       stop_loss_pct |-> Rat(1, 10), take_profit_pct |-> Rat(1, 5),
       trailing_pct |-> m[1], allow_reverse |-> m[2],
       entry_slippage_bps |-> R(b), exit_slippage_bps |-> R(b),
       entry_latency_bars |-> le, exit_latency_bars |-> lx] :
        m \in ExitModes, b \in SlippageBps, le \in Latencies, lx \in Latencies }

\* The plain configuration of the small price world
SmallCfg ==
    [initial_equity |-> R(1000), risk_per_trade |-> Rat(1, 10),
     stop_loss_pct |-> Rat(1, 10), take_profit_pct |-> Rat(1, 5),
     trailing_pct |-> R(0), allow_reverse |-> TRUE,
     entry_slippage_bps |-> R(0), exit_slippage_bps |-> R(0),
     entry_latency_bars |-> 0, exit_latency_bars |-> 0]

\* BacktestConfig(...) with a negative risk, stop or take percentage
NegativeCfgs ==
    {[SmallCfg EXCEPT !.risk_per_trade = Rat(-1, 10)],
     [SmallCfg EXCEPT !.stop_loss_pct = Rat(-1, 10)],
     [SmallCfg EXCEPT !.take_profit_pct = Rat(-1, 5)]}

Configs == {DefaultCfg} \cup SmallCfgs \cup NegativeCfgs

\* BacktestConfig(stop_loss_pct=0.0, ...): a zero stop distance. One unit of
\* equity is risked per trade, so that a position has size 1.0 / 1e-9,
\* and signals met while in a position are ignored.
DegenerateCfg ==
    [SmallCfg EXCEPT !.initial_equity = R(10), !.stop_loss_pct = R(0),
                     !.allow_reverse = FALSE]

Bar(bt, bo, bh, bl, bc) ==
    [time |-> bt, open |-> bo, high |-> bh, low |-> bl, close |-> bc]

\* Closes of the end-to-end scenario, continued at 100 after its five bars
ScenarioCloses == <<100, 101, 99, 95, 102>>
ScenarioClose(i) == IF i < Len(ScenarioCloses) THEN ScenarioCloses[i + 1] ELSE 100
ScenarioBar(i) ==
    Bar(i, ScenarioClose(i), ScenarioClose(i), ScenarioClose(i), ScenarioClose(i))
ScenarioLen == Len(ScenarioCloses)

\* The rows a series may hold at index i (0-based); bar i has time i.
\* Under the default configuration: the scenario's one-price bar, or a bar
\* around the same close spanning both the 1% stop and the 2% take.
\* Small price world: row 0 is flat at 10 (no position can be open on it);
\* later rows alternate between {flat, wide 9..12}, {up to 12, up to 11}
\* and {flat, down to 8}, so that stop, take and trailing exits all occur.
BarChoices(cf, i) ==
    IF cf = DefaultCfg
    THEN IF i = 0 THEN {ScenarioBar(i)}
         ELSE {ScenarioBar(i),
               Bar(i, ScenarioClose(i), ScenarioClose(i) + 3, ScenarioClose(i) - 3,
                   ScenarioClose(i))}
    ELSE IF i = 0 THEN {Bar(i, 10, 10, 10, 10)}
    ELSE IF i % 3 = 1 THEN {Bar(i, 10, 10, 10, 10), Bar(i, 10, 12, 9, 11)}
    ELSE IF i % 3 = 2 THEN {Bar(i, 10, 12, 10, 12), Bar(i, 10, 11, 10, 11)}
    ELSE {Bar(i, 10, 10, 10, 10), Bar(i, 10, 10, 8, 8)}

\* Rows that break the time order, explored on runs without signals: the
\* previous row's time again, or the first row's time again
DisorderedBars(cf, sigs, rows) ==
    IF sigs # <<>> \/ rows = <<>> THEN {}
    ELSE LET p == rows[1].close
         IN  {Bar(rows[Len(rows)].time, p, p, p, p), Bar(rows[1].time, p, p, p, p)}

BarLimit(cf) == IF cf = DefaultCfg THEN ScenarioLen ELSE MaxBars

\* One signal is a tuple (time, side, price)
SignalTimes == {0, 1, 2}
SignalChoices(cf) ==
    IF cf = DefaultCfg
    THEN {<<st, sd, 100>> : st \in SignalTimes, sd \in {"BUY", "sell"}}
    ELSE {<<st, sd, 10>> : st \in SignalTimes, sd \in {"BUY", "SELL"}}

SeqsUpTo(S, n) == UNION {[1..k -> S] : k \in 0..n}

\* Further signal lists of the small price world: a position met by two
\* opposite signals of different prices, on one bar or on two, a signal
\* whose side is neither BUY nor SELL, and an entry at 11, whose stop
\* distance 0.1 * 11 is not the float 1.1
ExtraSignalInputs(cf) ==
    IF cf = DefaultCfg THEN {}
    ELSE {<<<<0, "BUY", 10>>, <<1, "SELL", 11>>, <<1, "SELL", 12>>>>,
          <<<<0, "BUY", 10>>, <<1, "SELL", 11>>, <<2, "SELL", 12>>>>,
          <<<<0, "SELL", 10>>, <<1, "BUY", 11>>, <<1, "BUY", 9>>>>,
          <<<<0, "hold", 10>>>>,
          <<<<0, "hold", 10>>, <<1, "BUY", 11>>>>,
          <<<<0, "BUY", 11>>>>}

\* With a negative stop_loss_pct the stop distance is clamped to 1e-9 and a
\* position has size risk / 1e-9, beyond the integers of the model checker:
\* that configuration is run without signals.
SignalInputs(cf) ==
    IF RLt(cf.stop_loss_pct, R(0)) THEN {<<>>}
    ELSE IF cf = DegenerateCfg THEN SeqsUpTo(SignalChoices(cf), MaxSignals)
    ELSE SeqsUpTo(SignalChoices(cf), MaxSignals) \cup ExtraSignalInputs(cf)

-----------------------------------------------------------------------------
(* Pure functions *)

\* str.upper() on the side strings in use
Upper(s) ==
    CASE s = "buy" -> "BUY"
      [] s = "sell" -> "SELL"
      [] s = "hold" -> "HOLD"
      [] OTHER -> s

\* Variant: a signal is inserted before the signals of equal time
RECURSIVE InsertByTimeBeforeTies(_, _)
InsertByTimeBeforeTies(s, x) ==
    IF s = <<>> THEN <<x>>
    ELSE IF s[Len(s)][1] < x[1] THEN Append(s, x)
    ELSE Append(InsertByTimeBeforeTies(SubSeq(s, 1, Len(s) - 1), x), s[Len(s)])

\* sorted(signals, key=lambda x: x[0]): stable, so equal times keep input order
RECURSIVE InsertByTime(_, _)
InsertByTime(s, x) ==
    IF s = <<>> THEN <<x>>
    ELSE IF s[Len(s)][1] <= x[1] THEN Append(s, x)
    ELSE Append(InsertByTime(SubSeq(s, 1, Len(s) - 1), x), s[Len(s)])

RECURSIVE SortedByTime(_)
SortedByTime(s) ==
    IF s = <<>> THEN <<>>
    ELSE InsertByTime(SortedByTime(SubSeq(s, 1, Len(s) - 1)), s[Len(s)])

\* Variant: every position is valued as a long one
pos_pnl_long_only(sd, entry, exit, sz) ==
    RMul(RSub(exit, entry), sz)

\* _pos_pnl
pos_pnl(sd, entry, exit, sz) ==
    IF sd = "BUY" THEN RMul(RSub(exit, entry), sz) ELSE RMul(RSub(entry, exit), sz)

\* Variant: slippage applied in favour of the action
apply_slippage_favourable(price, action_side, bps) ==
    IF RLe(bps, R(0)) THEN price
    ELSE LET s == RDiv(bps, R(10000))
         IN  IF Upper(action_side) = "BUY"
             THEN RMul(price, RSub(R(1), s))
             ELSE RMul(price, RAdd(R(1), s))

apply_slippage(price, action_side, bps) ==
    IF RLe(bps, R(0)) THEN price
    ELSE LET s == RDiv(bps, R(10000))
         IN  IF Upper(action_side) = "BUY"
             THEN RMul(price, RAdd(R(1), s))
             ELSE RMul(price, RSub(R(1), s))

\* Variant: the stop distance is used as it is
MaxEpsNoClamp(x) == x

\* max(1e-9, x)
MaxEps(x) == RMax(Eps, x)

\* Variant: the size is computed from the initial equity
risk_size_initial_equity(eq, price) ==
    LET risk_dollars == RMul(cfg.initial_equity, cfg.risk_per_trade)
        sl_dist == MaxEps(RMul(cfg.stop_loss_pct, price))
    IN  RDiv(risk_dollars, sl_dist)

\* _risk_size
risk_size(eq, price) ==
    LET risk_dollars == RMul(eq, cfg.risk_per_trade)
        sl_dist == MaxEps(RMul(cfg.stop_loss_pct, price))
    IN  RDiv(risk_dollars, sl_dist)

\* Variant: a position is closed by an action of its own side
CloseActionSameSide(sd) == sd

\* The market action that closes a position of side sd
CloseAction(sd) == IF sd = "BUY" THEN "SELL" ELSE "BUY"

-----------------------------------------------------------------------------
(* Event model (events.py) *)

BarEvent(t, idx, o, h, l, c, v) ==
    [time |-> t, type |-> "bar", index |-> idx, open |-> o, high |-> h,
     low |-> l, close |-> c, volume |-> v]

SignalEvent(t, sd, price, source) ==
    [time |-> t, type |-> "signal", side |-> sd, price |-> price, source |-> source]

FillEvent(t, action, sd, price, intended_price, slippage_bps, latency_bars, submitted_time, qty, reason) ==
    [time |-> t, type |-> "fill", action |-> action, side |-> sd, price |-> price,
     intended_price |-> intended_price, slippage_bps |-> slippage_bps,
     latency_bars |-> latency_bars, submitted_time |-> submitted_time,
     qty |-> qty, reason |-> reason]

EquityEvent(t, eq) == [time |-> t, type |-> "equity", equity |-> eq]

TradeClosedEvent(t, sd, entry, exit, qty, pnl, pnl_pct, reason) ==
    [time |-> t, type |-> "trade_closed", side |-> sd, entry_price |-> entry,
     exit_price |-> exit, qty |-> qty, pnl |-> pnl, pnl_pct |-> pnl_pct,
     reason |-> reason]

\* ev.__class__.__name__
ClassName(ev) ==
    CASE ev.type = "bar" -> "BarEvent"
      [] ev.type = "signal" -> "SignalEvent"
      [] ev.type = "fill" -> "FillEvent"
      [] ev.type = "equity" -> "EquityEvent"
      [] ev.type = "trade_closed" -> "TradeClosedEvent"

\* to_wire: time and type leave the dict, the class name becomes the type
to_wire(ev) ==
    [time |-> ev.time, type |-> ClassName(ev),
     payload |-> [f \in (DOMAIN ev) \ {"time", "type"} |-> ev[f]]]

Trade(et, sd, ep, sz, xt, xp, pnl, reason) ==
    [entry_time |-> et, side |-> sd, entry_price |-> ep, size |-> sz,
     exit_time |-> xt, exit_price |-> xp, pnl |-> pnl, reason |-> reason]

-----------------------------------------------------------------------------
(* backtest_with_events: closures *)

\* Variant: events are recorded whatever emit_events says
emit_always(log, evs) == log \o evs

\* emit(ev), applied to a list of events in order
RECURSIVE emit(_, _)
emit(log, evs) ==
    IF ~emit_events \/ evs = <<>> THEN log
    ELSE emit(Append(log, Head(evs)), Tail(evs))

\* Variant: the Fill(OPEN) event carries the intended price as its price
open_pos_fill_intended(fill_time, s, executed_price, eq, intended_price, slippage_bps, latency_bars, submitted_time, reason) ==
    LET sz == risk_size(eq, executed_price)
        sl_dist == RMul(cfg.stop_loss_pct, executed_price)
        tp_dist == RMul(cfg.take_profit_pct, executed_price)
    IN  [side |-> s,
         entry_time |-> fill_time,
         entry_price |-> executed_price,
         size |-> sz,
         stop |-> IF s = "BUY" THEN RSub(executed_price, sl_dist)
                  ELSE RAdd(executed_price, sl_dist),
         take |-> IF s = "BUY" THEN RAdd(executed_price, tp_dist)
                  ELSE RSub(executed_price, tp_dist),
         best |-> executed_price,
         events |-> <<FillEvent(fill_time, "OPEN", s, intended_price, intended_price,
                                slippage_bps, latency_bars, submitted_time, sz, reason)>>]

\* open_pos: the position fields and the Fill(OPEN) event it produces
open_pos(fill_time, s, executed_price, eq, intended_price, slippage_bps, latency_bars, submitted_time, reason) ==
    LET sz == risk_size(eq, executed_price)
        sl_dist == RMul(cfg.stop_loss_pct, executed_price)
        tp_dist == RMul(cfg.take_profit_pct, executed_price)
    IN  [side |-> s,
         entry_time |-> fill_time,
         entry_price |-> executed_price,
         size |-> sz,
         stop |-> IF s = "BUY" THEN RSub(executed_price, sl_dist)
                  ELSE RAdd(executed_price, sl_dist),
         take |-> IF s = "BUY" THEN RAdd(executed_price, tp_dist)
                  ELSE RSub(executed_price, tp_dist),
         best |-> executed_price,
         events |-> <<FillEvent(fill_time, "OPEN", s, executed_price, intended_price,
                                slippage_bps, latency_bars, submitted_time, sz, reason)>>]

\* close_pos on an open position: new equity, the trade and the two events
close_pos(fill_time, executed_price, reason, intended_price, slippage_bps, latency_bars, submitted_time) ==
    LET pnl == pos_pnl(side, entry_price, executed_price, size)
        eq2 == RAdd(equity, pnl)
        pnl_pct == IF ~IsZero(eq2) THEN RDiv(pnl, eq2) ELSE R(0)
    IN  [equity |-> eq2,
         trade |-> Trade(entry_time, side, entry_price, size, fill_time,
                         executed_price, pnl, reason),
         events |-> <<TradeClosedEvent(fill_time, side, entry_price, executed_price,
                                       size, pnl, pnl_pct, reason),
                      FillEvent(fill_time, "CLOSE", side, executed_price, intended_price,
                                slippage_bps, latency_bars, submitted_time, size, reason)>>]

\* The position fields after close_pos
Flat ==
    /\ side' = None
    /\ entry_time' = NoTime
    /\ entry_price' = R(0)
    /\ size' = R(0)
    /\ stop' = R(0)
    /\ take' = R(0)
    /\ best' = R(0)

PendingOrder(sd, intended_price, reason, latency, submitted_time) ==
    [side |-> sd, intended_price |-> intended_price, reason |-> reason,
     latency |-> latency, remaining |-> latency, submitted_time |-> submitted_time]

PendingExit(intended_price, reason, latency, submitted_time) ==
    [intended_price |-> intended_price, reason |-> reason,
     latency |-> latency, remaining |-> latency, submitted_time |-> submitted_time]

\* The row of the current loop iteration and its fields as floats
row == df[Len(df)]
t == row.time
o == R(row.open)
h == R(row.high)
l == R(row.low)
c == R(row.close)

\* Variant: the run starts from the default equity, not the configured one
StartEquityDefault(cf) == R(100000)

\* equity = float(cfg.initial_equity)
StartEquity(cf) == cf.initial_equity

\* Variant: a signal schedules an entry whenever no entry is pending
EntryFreeAnyPosition == pending_entry = NoOrder

\* if side is None and pending_entry is None
EntryFree == side = None /\ pending_entry = NoOrder

\* if pending_exit is not None and side is not None
ExitDue == pending_exit # NoOrder /\ side # None

\* Variant: a pending entry executes without checking that the engine is flat
EntryDueAnyPosition == pending_entry # NoOrder

\* if pending_entry is not None and side is None
EntryDue == pending_entry # NoOrder /\ side = None

\* elif side is not None and cfg.allow_reverse and side != sside
ReverseDue(sside) == side # None /\ cfg.allow_reverse /\ side # sside

\* Variant: the exit checks also run while an exit is pending
ExitCheckDueAnyOrder == side # None

\* if side is not None and pending_exit is None
ExitCheckDue == side # None /\ pending_exit = NoOrder

\* Variant: best keeps the value it got when the position was opened
UpdateBestStale(sd, b, lo, hi) == b

\* best = max(best, h) if side == "BUY" else min(best, l)
UpdateBest(sd, b, lo, hi) == IF sd = "BUY" THEN RMax(b, hi) ELSE RMin(b, lo)

\* Variant: the stop is hit only by a strict crossing
HitStopStrict(sd, lo, hi, stp) == IF sd = "BUY" THEN RLt(lo, stp) ELSE RLt(stp, hi)

\* hit_stop and hit_take against the bar's low lo and high hi
HitStop(sd, lo, hi, stp) == IF sd = "BUY" THEN RLe(lo, stp) ELSE RLe(stp, hi)
HitTake(sd, lo, hi, tk) == IF sd = "BUY" THEN RLe(tk, hi) ELSE RLe(lo, tk)

\* Variant: the end-of-data close also runs for an entry still pending
CloseAtEndOrPending == side # None \/ pending_entry # NoOrder

\* if side is not None (after the loop)
CloseAtEnd == side # None

\* Variants: the end-of-data close leaves the last curve entry alone, or
\* appends the corrected equity as one more entry
CorrectLastSkipped(cv, eq) == cv
CorrectLastAppended(cv, eq) == Append(cv, eq)

\* curve[-1] = equity
CorrectLast(cv, eq) == [cv EXCEPT ![Len(cv)] = eq]

-----------------------------------------------------------------------------
(* backtest_with_events: the run *)

\* State after lines 85-109: inputs bound, signals sorted, locals initialised
InitFor(cfgs) ==
    /\ cfg \in cfgs
    /\ emit_events = TRUE
    /\ sig_input \in SignalInputs(cfg)
    /\ signals = SortedByTime(sig_input)
    /\ df = <<>>
    /\ sig_i = 0
    /\ equity = StartEquity(cfg)
    /\ curve = <<>>
    /\ trades = <<>>
    /\ internal_events = <<>>
    /\ side = None
    /\ entry_time = NoTime
    /\ entry_price = R(0)
    /\ size = R(0)
    /\ stop = R(0)
    /\ take = R(0)
    /\ best = R(0)
    /\ pending_entry = NoOrder
    /\ pending_exit = NoOrder
    /\ pc = "loop"
    /\ wire_events = <<>>
    /\ events = <<>>
    /\ cursor = 0
    /\ last_call = NoCall
    /\ SharedIdle
    /\ first_run = NoRun
    /\ SurfaceIdle
    /\ JsonlIdle

Init == InitFor(Configs)

\* for i, row in df.iterrows(): the next row, and its Bar event
BarStart ==
    /\ pc = "loop"
    /\ Len(df) < BarLimit(cfg)
    /\ \E r \in BarChoices(cfg, Len(df)) \cup DisorderedBars(cfg, sig_input, df) :
          /\ df' = Append(df, r)
          /\ internal_events' =
                emit(internal_events,
                     <<BarEvent(r.time, Len(df), R(r.open), R(r.high), R(r.low),
                                R(r.close), NoFloat)>>)
    /\ pc' = "exit"
    /\ UNCHANGED <<cfg, emit_events, sig_input, signals, sig_i, equity, curve, trades,
                   posVars, pending_entry, pending_exit, wire_events>>
    /\ UNCHANGED <<replayVars, sharedVars, rerunVars, surfaceVars, jsonlVars>>

\* Variant: a pending exit always fills from its intended price
ExecPendingExitAtIntended ==
    /\ pc = "exit"
    /\ pc' = "entry"
    /\ IF ExitDue
       THEN IF pending_exit.remaining <= 0
            THEN LET base_price == pending_exit.intended_price
                     exec_price == apply_slippage(base_price, CloseAction(side),
                                                  cfg.exit_slippage_bps)
                 IN  \E res \in {close_pos(t, exec_price, pending_exit.reason,
                                           pending_exit.intended_price, cfg.exit_slippage_bps,
                                           pending_exit.latency, pending_exit.submitted_time)} :
                         /\ equity' = res.equity
                         /\ trades' = Append(trades, res.trade)
                         /\ internal_events' = emit(internal_events, res.events)
                         /\ Flat
                         /\ pending_exit' = NoOrder
            ELSE /\ pending_exit' = [pending_exit EXCEPT !.remaining = @ - 1]
                 /\ UNCHANGED <<equity, trades, internal_events, posVars>>
       ELSE UNCHANGED <<equity, trades, internal_events, posVars, pending_exit>>
    /\ UNCHANGED <<cfg, emit_events, sig_input, signals, df, sig_i, curve,
                   pending_entry, wire_events>>
    /\ UNCHANGED <<replayVars, sharedVars, rerunVars, surfaceVars, jsonlVars>>

\* execute pending exit first
ExecPendingExit ==
    /\ pc = "exit"
    /\ pc' = "entry"
    /\ IF ExitDue
       THEN IF pending_exit.remaining <= 0
            THEN LET base_price == IF pending_exit.latency > 0 THEN o
                                   ELSE pending_exit.intended_price
                     exec_price == apply_slippage(base_price, CloseAction(side),
                                                  cfg.exit_slippage_bps)
                 IN  \E res \in {close_pos(t, exec_price, pending_exit.reason,
                                           pending_exit.intended_price, cfg.exit_slippage_bps,
                                           pending_exit.latency, pending_exit.submitted_time)} :
                         /\ equity' = res.equity
                         /\ trades' = Append(trades, res.trade)
                         /\ internal_events' = emit(internal_events, res.events)
                         /\ Flat
                         /\ pending_exit' = NoOrder
            ELSE /\ pending_exit' = [pending_exit EXCEPT !.remaining = @ - 1]
                 /\ UNCHANGED <<equity, trades, internal_events, posVars>>
       ELSE UNCHANGED <<equity, trades, internal_events, posVars, pending_exit>>
    /\ UNCHANGED <<cfg, emit_events, sig_input, signals, df, sig_i, curve,
                   pending_entry, wire_events>>
    /\ UNCHANGED <<replayVars, sharedVars, rerunVars, surfaceVars, jsonlVars>>

\* execute pending entry
ExecPendingEntry ==
    /\ pc = "entry"
    /\ pc' = "signals"
    /\ IF EntryDue
       THEN IF pending_entry.remaining <= 0
            THEN LET base_price == IF pending_entry.latency > 0 THEN o
                                   ELSE pending_entry.intended_price
                     exec_price == apply_slippage(base_price, pending_entry.side,
                                                  cfg.entry_slippage_bps)
                     fill_time == IF pending_entry.latency > 0 THEN t
                                  ELSE pending_entry.submitted_time
                 IN  \E res \in {open_pos(fill_time, pending_entry.side, exec_price, equity,
                                          pending_entry.intended_price, cfg.entry_slippage_bps,
                                          pending_entry.latency, pending_entry.submitted_time,
                                          pending_entry.reason)} :
                         /\ side' = res.side
                         /\ entry_time' = res.entry_time
                         /\ entry_price' = res.entry_price
                         /\ size' = res.size
                         /\ stop' = res.stop
                         /\ take' = res.take
                         /\ best' = res.best
                         /\ internal_events' = emit(internal_events, res.events)
                         /\ pending_entry' = NoOrder
            ELSE /\ pending_entry' = [pending_entry EXCEPT !.remaining = @ - 1]
                 /\ UNCHANGED <<internal_events, posVars>>
       ELSE UNCHANGED <<internal_events, posVars, pending_entry>>
    /\ UNCHANGED <<cfg, emit_events, sig_input, signals, df, sig_i, equity, curve,
                   trades, pending_exit, wire_events>>
    /\ UNCHANGED <<replayVars, sharedVars, rerunVars, surfaceVars, jsonlVars>>

\* The while-loop condition: a signal with time <= this bar's time is waiting
SignalDue == sig_i < Len(signals) /\ signals[sig_i + 1][1] <= t

\* Variant: a reversing signal schedules its exit and entry over pending ones
ConsumeSignalOverwriting ==
    /\ pc = "signals"
    /\ SignalDue
    /\ LET st == signals[sig_i + 1][1]
           sside == Upper(signals[sig_i + 1][2])
           sprice == R(signals[sig_i + 1][3])
       IN  /\ sig_i' = sig_i + 1
           /\ internal_events' =
                 emit(internal_events, <<SignalEvent(st, sside, sprice, "strategy")>>)
           /\ IF EntryFree
              THEN /\ pending_entry' = PendingOrder(sside, sprice, "Signal",
                                                    cfg.entry_latency_bars, st)
                   /\ UNCHANGED pending_exit
              ELSE IF ReverseDue(sside)
              THEN /\ pending_exit' =
                         PendingExit(c, "ReverseSignal", cfg.exit_latency_bars, t)
                   /\ pending_entry' =
                         PendingOrder(sside, sprice, "ReverseSignal",
                                      cfg.entry_latency_bars, st)
              ELSE UNCHANGED <<pending_entry, pending_exit>>
    /\ pc' = "signals"
    /\ UNCHANGED <<cfg, emit_events, sig_input, signals, df, equity, curve, trades,
                   posVars, wire_events>>
    /\ UNCHANGED <<replayVars, sharedVars, rerunVars, surfaceVars, jsonlVars>>

\* Variant: the loop takes each signal off the list the caller passed
\* instead of reading a sorted copy by index
ConsumeSignalPopping ==
    /\ pc = "signals"
    /\ SignalDue
    /\ LET st == signals[sig_i + 1][1]
           sside == Upper(signals[sig_i + 1][2])
           sprice == R(signals[sig_i + 1][3])
           k == CHOOSE j \in 1..Len(sig_input) :
                    /\ sig_input[j] = signals[sig_i + 1]
                    /\ \A m \in 1..(j - 1) : sig_input[m] # signals[sig_i + 1]
       IN  /\ sig_i' = sig_i + 1
           /\ sig_input' = SubSeq(sig_input, 1, k - 1)
                               \o SubSeq(sig_input, k + 1, Len(sig_input))
           /\ internal_events' =
                 emit(internal_events, <<SignalEvent(st, sside, sprice, "strategy")>>)
           /\ IF EntryFree
              THEN /\ pending_entry' = PendingOrder(sside, sprice, "Signal",
                                                    cfg.entry_latency_bars, st)
                   /\ UNCHANGED pending_exit
              ELSE IF ReverseDue(sside)
              THEN /\ pending_exit' =
                         IF pending_exit = NoOrder
                         THEN PendingExit(c, "ReverseSignal", cfg.exit_latency_bars, t)
                         ELSE pending_exit
                   /\ pending_entry' =
                         IF pending_entry = NoOrder
                         THEN PendingOrder(sside, sprice, "ReverseSignal",
                                           cfg.entry_latency_bars, st)
                         ELSE pending_entry
              ELSE UNCHANGED <<pending_entry, pending_exit>>
    /\ pc' = "signals"
    /\ UNCHANGED <<cfg, emit_events, signals, df, equity, curve, trades,
                   posVars, wire_events>>
    /\ UNCHANGED <<replayVars, sharedVars, rerunVars, surfaceVars, jsonlVars>>

\* One iteration of the while loop consuming signals
ConsumeSignal ==
    /\ pc = "signals"
    /\ SignalDue
    /\ LET st == signals[sig_i + 1][1]
           sside == Upper(signals[sig_i + 1][2])
           sprice == R(signals[sig_i + 1][3])
       IN  /\ sig_i' = sig_i + 1
           /\ internal_events' =
                 emit(internal_events, <<SignalEvent(st, sside, sprice, "strategy")>>)
           /\ IF EntryFree
              THEN /\ pending_entry' = PendingOrder(sside, sprice, "Signal",
                                                    cfg.entry_latency_bars, st)
                   /\ UNCHANGED pending_exit
              ELSE IF ReverseDue(sside)
              THEN /\ pending_exit' =
                         IF pending_exit = NoOrder
                         THEN PendingExit(c, "ReverseSignal", cfg.exit_latency_bars, t)
                         ELSE pending_exit
                   /\ pending_entry' =
                         IF pending_entry = NoOrder
                         THEN PendingOrder(sside, sprice, "ReverseSignal",
                                           cfg.entry_latency_bars, st)
                         ELSE pending_entry
              ELSE UNCHANGED <<pending_entry, pending_exit>>
    /\ pc' = "signals"
    /\ UNCHANGED <<cfg, emit_events, sig_input, signals, df, equity, curve, trades,
                   posVars, wire_events>>
    /\ UNCHANGED <<replayVars, sharedVars, rerunVars, surfaceVars, jsonlVars>>

\* Variant: the exit checks test the take level before the stop level
ExitChecksTakeFirst ==
    /\ pc = "signals"
    /\ ~SignalDue
    /\ pc' = "loop"
    /\ IF ExitCheckDue
       THEN LET best2 == UpdateBest(side, best, l, h)
                hit_stop == HitStop(side, l, h, stop)
                hit_take == HitTake(side, l, h, take)
                trail_dist == RMul(cfg.trailing_pct, entry_price)
                trail == IF side = "BUY" THEN RSub(best2, trail_dist)
                         ELSE RAdd(best2, trail_dist)
                hit_trail == IF side = "BUY" THEN RLe(l, trail) ELSE RLe(trail, h)
            IN  /\ best' = best2
                /\ pending_exit' =
                      IF hit_take
                      THEN PendingExit(take, "TakeProfit", cfg.exit_latency_bars, t)
                      ELSE IF hit_stop
                      THEN PendingExit(stop, "StopLoss", cfg.exit_latency_bars, t)
                      ELSE IF ~IsZero(cfg.trailing_pct) /\ RLt(R(0), cfg.trailing_pct)
                              /\ hit_trail
                      THEN PendingExit(trail, "TrailingStop", cfg.exit_latency_bars, t)
                      ELSE pending_exit
       ELSE UNCHANGED <<best, pending_exit>>
    /\ curve' = Append(curve, equity)
    /\ internal_events' = emit(internal_events, <<EquityEvent(t, equity)>>)
    /\ UNCHANGED <<cfg, emit_events, sig_input, signals, df, sig_i, equity,
                   trades, side, entry_time, entry_price, size, stop,
                   take, pending_entry, wire_events>>
    /\ UNCHANGED <<replayVars, sharedVars, rerunVars, surfaceVars, jsonlVars>>

\* exit checks (if still in a position and no exit pending), then
\* curve.append(equity) and the Equity event, which end the iteration
ExitChecks ==
    /\ pc = "signals"
    /\ ~SignalDue
    /\ pc' = "loop"
    /\ IF ExitCheckDue
       THEN LET best2 == UpdateBest(side, best, l, h)
                hit_stop == HitStop(side, l, h, stop)
                hit_take == HitTake(side, l, h, take)
                trail_dist == RMul(cfg.trailing_pct, entry_price)
                trail == IF side = "BUY" THEN RSub(best2, trail_dist)
                         ELSE RAdd(best2, trail_dist)
                hit_trail == IF side = "BUY" THEN RLe(l, trail) ELSE RLe(trail, h)
            IN  /\ best' = best2
                /\ pending_exit' =
                      IF hit_stop
                      THEN PendingExit(stop, "StopLoss", cfg.exit_latency_bars, t)
                      ELSE IF hit_take
                      THEN PendingExit(take, "TakeProfit", cfg.exit_latency_bars, t)
                      ELSE IF ~IsZero(cfg.trailing_pct) /\ RLt(R(0), cfg.trailing_pct)
                              /\ hit_trail
                      THEN PendingExit(trail, "TrailingStop", cfg.exit_latency_bars, t)
                      ELSE pending_exit
       ELSE UNCHANGED <<best, pending_exit>>
    /\ curve' = Append(curve, equity)
    /\ internal_events' = emit(internal_events, <<EquityEvent(t, equity)>>)
    /\ UNCHANGED <<cfg, emit_events, sig_input, signals, df, sig_i, equity,
                   trades, side, entry_time, entry_price, size, stop,
                   take, pending_entry, wire_events>>
    /\ UNCHANGED <<replayVars, sharedVars, rerunVars, surfaceVars, jsonlVars>>

\* After the loop: close at end, convert to wire events, return
Finish ==
    /\ pc = "loop"
    /\ pc' = "done"
    /\ IF CloseAtEnd
       THEN LET last == df[Len(df)]
                base_price == R(last.close)
                exec_price == apply_slippage(base_price, CloseAction(side),
                                             cfg.exit_slippage_bps)
            IN  \E res \in {close_pos(last.time, exec_price, "EndOfData", base_price,
                                      cfg.exit_slippage_bps, 0, last.time)} :
                \E evs \in {emit(emit(internal_events, res.events),
                                 <<EquityEvent(last.time, res.equity)>>)} :
                    /\ equity' = res.equity
                    /\ trades' = Append(trades, res.trade)
                    /\ Flat
                    /\ curve' = CorrectLast(curve, res.equity)
                    /\ internal_events' = evs
                    /\ wire_events' = IF emit_events
                                      THEN [k \in 1..Len(evs) |-> to_wire(evs[k])]
                                      ELSE <<>>
       ELSE /\ UNCHANGED <<equity, trades, posVars, curve, internal_events>>
            /\ wire_events' = IF emit_events
                              THEN [k \in 1..Len(internal_events) |->
                                        to_wire(internal_events[k])]
                              ELSE <<>>
    /\ UNCHANGED <<cfg, emit_events, sig_input, signals, df, sig_i, pending_entry,
                   pending_exit>>
    /\ UNCHANGED <<replayVars, sharedVars, rerunVars, surfaceVars, jsonlVars>>

Next ==
    \/ BarStart
    \/ ExecPendingExit
    \/ ExecPendingEntry
    \/ ConsumeSignal
    \/ ExitChecks
    \/ Finish

Spec == Init /\ [][Next]_vars

-----------------------------------------------------------------------------
(* backtest_with_events called a second time on the same arguments *)

\* Configurations of the runs that are repeated: one with trailing stop,
\* slippage and latency on both sides, and the one with a zero stop distance
RerunCfgs ==
    {[SmallCfg EXCEPT !.trailing_pct = Rat(1, 20),
                      !.entry_slippage_bps = R(1000), !.exit_slippage_bps = R(1000),
                      !.entry_latency_bars = 1, !.exit_latency_bars = 1],
     DegenerateCfg}

RerunInit == InitFor(RerunCfgs)

\* What the caller holds of a finished call: the bars it passed and the
\* three values returned
ReturnedRun == [df |-> df, trades |-> trades, curve |-> curve, wire_events |-> wire_events]

\* The second call, on the same bars, signals and config: lines 85-109 set
\* every local of the function anew
Rerun ==
    /\ pc = "done"
    /\ first_run = NoRun
    /\ first_run' = ReturnedRun
    /\ signals' = SortedByTime(sig_input)
    /\ df' = <<>>
    /\ sig_i' = 0
    /\ equity' = StartEquity(cfg)
    /\ curve' = <<>>
    /\ trades' = <<>>
    /\ internal_events' = <<>>
    /\ Flat
    /\ pending_entry' = NoOrder
    /\ pending_exit' = NoOrder
    /\ pc' = "loop"
    /\ wire_events' = <<>>
    /\ UNCHANGED <<cfg, emit_events, sig_input>>
    /\ UNCHANGED <<replayVars, sharedVars, surfaceVars, jsonlVars>>

\* The loop of the second call iterates over the rows of the same bars
RerunBarStart ==
    /\ BarStart
    /\ first_run # NoRun =>
          /\ Len(df) < Len(first_run.df)
          /\ df' = SubSeq(first_run.df, 1, Len(df) + 1)

\* ... and leaves the loop after the last of them
RerunFinish ==
    /\ Finish
    /\ first_run # NoRun => Len(df) = Len(first_run.df)

RerunNext ==
    \/ RerunBarStart
    \/ ExecPendingExit
    \/ ExecPendingEntry
    \/ ConsumeSignal
    \/ ExitChecks
    \/ RerunFinish
    \/ Rerun

RerunSpec == RerunInit /\ [][RerunNext]_vars

-----------------------------------------------------------------------------
(* replay.py: EventStream, a cursor over a wire event log *)

\* Longest replayed log
MaxLog == 3

\* Wire events a replayed log may hold: a bar without and a bar with a
\* volume, a signal, an entry fill, an entry fill without a quantity, two
\* equity values, a closed trade and its exit fill
ReplayEvents ==
    {to_wire(BarEvent(0, 0, R(10), R(10), R(10), R(10), NoFloat)),
     to_wire(BarEvent(1, 1, R(10), R(12), R(9), R(11), R(500))),
     to_wire(SignalEvent(0, "BUY", R(10), "strategy")),
     to_wire(FillEvent(0, "OPEN", "BUY", R(10), R(10), R(0), 0, 0, R(100), "Signal")),
     to_wire(FillEvent(1, "OPEN", "SELL", R(11), R(11), R(0), 0, 1, NoFloat, "Signal")),
     to_wire(EquityEvent(0, R(1000))),
     to_wire(EquityEvent(1, R(1100))),
     to_wire(TradeClosedEvent(1, "BUY", R(10), R(11), R(100), R(100), Rat(1, 11),
                              "EndOfData")),
     to_wire(FillEvent(1, "CLOSE", "BUY", R(11), R(11), R(0), 0, 1, R(100),
                       "EndOfData"))}

ReplayLogs == SeqsUpTo(ReplayEvents, MaxLog)

\* Arguments of seek and step: negative, inside the log and past its end
CallArgs == (0 - MaxLog - 1)..(MaxLog + 1)

\* EventStream.max_index
max_index(evs) == IF Len(evs) - 1 > 0 THEN Len(evs) - 1 ELSE 0

\* Variant: seek clamps at the end of the log only
seek_no_floor(evs, index) ==
    IF evs = <<>> THEN 0
    ELSE IF index < max_index(evs) THEN index ELSE max_index(evs)

\* EventStream.seek: the new cursor index
seek(evs, index) ==
    IF evs = <<>> THEN 0
    ELSE LET m == IF index < max_index(evs) THEN index ELSE max_index(evs)
         IN  IF m > 0 THEN m ELSE 0

\* EventStream.step: the new cursor index
step(evs, cur, n) == seek(evs, cur + n)

\* Variant: head returns the whole log
head_whole(evs, cur, inclusive) == evs

\* EventStream.head
head(evs, cur, inclusive) ==
    IF evs = <<>> THEN <<>>
    ELSE SubSeq(evs, 1, IF inclusive THEN cur + 1 ELSE cur)

\* EventStream.current_time
current_time(evs, cur) == IF evs = <<>> THEN NoTime ELSE evs[cur + 1].time

\* pd.to_datetime of an integer: that many nanoseconds after the epoch
to_datetime(x) == [epoch_ns |-> x]

\* df.sort_values("time") on a list of rows; rows of equal time are kept in
\* their order of insertion
RECURSIVE InsertRow(_, _)
InsertRow(rows, x) ==
    IF rows = <<>> THEN <<x>>
    ELSE IF rows[Len(rows)].time.epoch_ns <= x.time.epoch_ns THEN Append(rows, x)
    ELSE Append(InsertRow(SubSeq(rows, 1, Len(rows) - 1), x), rows[Len(rows)])

RECURSIVE sort_values(_)
sort_values(rows) ==
    IF rows = <<>> THEN <<>>
    ELSE InsertRow(sort_values(SubSeq(rows, 1, Len(rows) - 1)), rows[Len(rows)])

\* The type tests of the four views
IsBarWire(e) == e.type = "BarEvent"
IsEquityWire(e) == e.type = "EquityEvent"
IsFillWire(e) == e.type = "FillEvent"
IsTradeClosedWire(e) == e.type = "TradeClosedEvent"

\* float(p.get("volume", 0) or 0), float(p.get("qty", 0) or 0)
FloatOrZero(x) == IF x = NoFloat \/ IsZero(x) THEN R(0) ELSE x

\* The row each view appends for one event
CandleRow(e) ==
    [time |-> to_datetime(e.time), open |-> e.payload.open, high |-> e.payload.high,
     low |-> e.payload.low, close |-> e.payload.close,
     volume |-> FloatOrZero(e.payload.volume)]

EquityRow(e) == [time |-> to_datetime(e.time), equity |-> e.payload.equity]

FillRow(e) ==
    [time |-> to_datetime(e.time), action |-> e.payload.action, side |-> e.payload.side,
     price |-> e.payload.price, qty |-> FloatOrZero(e.payload.qty),
     reason |-> e.payload.reason]

TradeCloseRow(e) ==
    [time |-> to_datetime(e.time), side |-> e.payload.side,
     entry_price |-> e.payload.entry_price, exit_price |-> e.payload.exit_price,
     pnl |-> e.payload.pnl, pnl_pct |-> e.payload.pnl_pct, reason |-> e.payload.reason]

\* The materialized views at cursor index cur
candles_upto(evs, cur) ==
    LET sel == SelectSeq(head(evs, cur, TRUE), IsBarWire)
    IN  sort_values([k \in 1..Len(sel) |-> CandleRow(sel[k])])

equity_upto(evs, cur) ==
    LET sel == SelectSeq(head(evs, cur, TRUE), IsEquityWire)
    IN  sort_values([k \in 1..Len(sel) |-> EquityRow(sel[k])])

fills_upto(evs, cur) ==
    LET sel == SelectSeq(head(evs, cur, TRUE), IsFillWire)
    IN  sort_values([k \in 1..Len(sel) |-> FillRow(sel[k])])

trade_closes_upto(evs, cur) ==
    LET sel == SelectSeq(head(evs, cur, TRUE), IsTradeClosedWire)
    IN  sort_values([k \in 1..Len(sel) |-> TradeCloseRow(sel[k])])

\* The engine's variables while only a stream is replayed
EngineIdle ==
    /\ cfg = DefaultCfg
    /\ emit_events = TRUE
    /\ sig_input = <<>>
    /\ signals = <<>>
    /\ df = <<>>
    /\ sig_i = 0
    /\ equity = StartEquity(DefaultCfg)
    /\ curve = <<>>
    /\ trades = <<>>
    /\ internal_events = <<>>
    /\ side = None
    /\ entry_time = NoTime
    /\ entry_price = R(0)
    /\ size = R(0)
    /\ stop = R(0)
    /\ take = R(0)
    /\ best = R(0)
    /\ pending_entry = NoOrder
    /\ pending_exit = NoOrder
    /\ pc = "replay"
    /\ wire_events = <<>>

engineVars ==
    <<cfg, emit_events, sig_input, signals, df, sig_i, equity, curve, trades,
      internal_events, side, entry_time, entry_price, size, stop, take, best,
      pending_entry, pending_exit, pc, wire_events>>

\* EventStream(events): self.events = events or [], cursor at index 0
ReplayInit ==
    /\ EngineIdle
    /\ events \in ReplayLogs
    /\ cursor = 0
    /\ last_call = NoCall
    /\ SharedIdle
    /\ first_run = NoRun
    /\ SurfaceIdle
    /\ JsonlIdle

\* A call of seek(i)
SeekCall ==
    /\ pc = "replay"
    /\ \E i \in CallArgs :
          /\ cursor' = seek(events, i)
          /\ last_call' = [op |-> "seek", arg |-> i]
    /\ UNCHANGED <<events, engineVars, sharedVars, rerunVars, surfaceVars, jsonlVars>>

\* A call of step(n)
StepCall ==
    /\ pc = "replay"
    /\ \E n \in CallArgs :
          /\ cursor' = step(events, cursor, n)
          /\ last_call' = [op |-> "step", arg |-> n]
    /\ UNCHANGED <<events, engineVars, sharedVars, rerunVars, surfaceVars, jsonlVars>>

ReplayNext ==
    \/ SeekCall
    \/ StepCall

ReplaySpec == ReplayInit /\ [][ReplayNext]_vars

-----------------------------------------------------------------------------
(* replay.py: several EventStream objects built over one event list *)

\* The streams built over the shared list
Streams == {"a", "b"}

\* Wire events the shared list may hold: one of each viewed type and a
\* second Equity event of an earlier time, so that a view can hold two rows
\* in an order that is not the order of the log
SharedEvents ==
    {to_wire(BarEvent(0, 0, R(10), R(12), R(9), R(11), NoFloat)),
     to_wire(FillEvent(0, "OPEN", "BUY", R(10), R(10), R(0), 0, 0, R(100), "Signal")),
     to_wire(EquityEvent(0, R(1000))),
     to_wire(EquityEvent(1, R(1100))),
     to_wire(TradeClosedEvent(1, "BUY", R(10), R(11), R(100), R(100), Rat(1, 11),
                              "EndOfData"))}

\* Logs of up to MaxLog of these events, none of them twice
SharedLogs ==
    {evs \in SeqsUpTo(SharedEvents, MaxLog) :
        \A i \in 1..Len(evs) : \A j \in 1..Len(evs) : i # j => evs[i] # evs[j]}

\* What a stream returns when its four views and current_time are queried
Views(evs, cur) ==
    [candles |-> candles_upto(evs, cur), equity |-> equity_upto(evs, cur),
     fills |-> fills_upto(evs, cur), trade_closes |-> trade_closes_upto(evs, cur)]

\* EventStream(events) for every stream: each holds the same list and a
\* ReplayCursor of its own at index 0
SharedInit ==
    /\ EngineIdle
    /\ events \in SharedLogs
    /\ cursor = 0
    /\ last_call = NoCall
    /\ cursors = [s \in Streams |-> 0]
    /\ results = [s \in Streams |-> NoResult]
    /\ caller = NoCaller
    /\ first_run = NoRun
    /\ SurfaceIdle
    /\ JsonlIdle

\* Variant: the streams share one ReplayCursor, so a seek moves all of them
SharedSeekAll(s) ==
    /\ \E i \in CallArgs : cursors' = [x \in Streams |-> seek(events, i)]
    /\ caller' = [stream |-> s, op |-> "seek"]
    /\ UNCHANGED <<events, results, cursor, last_call, engineVars, rerunVars, surfaceVars, jsonlVars>>

\* Stream s calls seek(i)
SharedSeek(s) ==
    /\ \E i \in CallArgs : cursors' = [cursors EXCEPT ![s] = seek(events, i)]
    /\ caller' = [stream |-> s, op |-> "seek"]
    /\ UNCHANGED <<events, results, cursor, last_call, engineVars, rerunVars, surfaceVars, jsonlVars>>

\* Stream s calls step(n)
SharedStep(s) ==
    /\ \E n \in CallArgs : cursors' = [cursors EXCEPT ![s] = step(events, cursors[s], n)]
    /\ caller' = [stream |-> s, op |-> "step"]
    /\ UNCHANGED <<events, results, cursor, last_call, engineVars, rerunVars, surfaceVars, jsonlVars>>

\* Variant: reading the views advances the cursor of the stream
SharedQueryMoving(s) ==
    /\ results' = [results EXCEPT ![s] =
                      [index |-> cursors[s], views |-> Views(events, cursors[s]),
                       now |-> current_time(events, cursors[s])]]
    /\ cursors' = [cursors EXCEPT ![s] = step(events, cursors[s], 1)]
    /\ caller' = [stream |-> s, op |-> "query"]
    /\ UNCHANGED <<events, cursor, last_call, engineVars, rerunVars, surfaceVars, jsonlVars>>

\* Stream s reads its four views and current_time()
SharedQuery(s) ==
    /\ results' = [results EXCEPT ![s] =
                      [index |-> cursors[s], views |-> Views(events, cursors[s]),
                       now |-> current_time(events, cursors[s])]]
    /\ caller' = [stream |-> s, op |-> "query"]
    /\ UNCHANGED <<events, cursors, cursor, last_call, engineVars, rerunVars, surfaceVars, jsonlVars>>

SharedNext ==
    \E s \in Streams :
        \/ SharedSeek(s)
        \/ SharedStep(s)
        \/ SharedQuery(s)

SharedReplaySpec == SharedInit /\ [][SharedNext]_vars

-----------------------------------------------------------------------------
(* strategy_surface.py: the adapter from strategy output to engine signals *)

\* A side value of the strategy output: a str, as its characters, or None
Str(chars) == [none |-> FALSE, chars |-> chars]
NoneSide == [none |-> TRUE, chars |-> <<>>]

\* Side strings that spell BUY or LONG in some case, with or without
\* surrounding whitespace
BuySpellings ==
    {Str(<<"B", "U", "Y">>),
     Str(<<"b", "u", "y">>),
     Str(<<" ", "B", "u", "y", " ">>),
     Str(<<"l", "o", "n", "g">>),
     Str(<<"L", "O", "N", "G", "\n">>),
     Str(<<"\t", "L", "o", "n", "g">>)}

\* ... that spell SELL or SHORT
SellSpellings ==
    {Str(<<"S", "E", "L", "L">>),
     Str(<<"s", "e", "l", "l">>),
     Str(<<"S", "e", "l", "l", "\t">>),
     Str(<<"s", "h", "o", "r", "t">>),
     Str(<<" ", "S", "H", "O", "R", "T">>)}

\* ... and that spell none of the four
OtherSpellings ==
    {Str(<<>>),
     Str(<<" ", " ">>),
     Str(<<"h", "o", "l", "d">>),
     Str(<<"b", "u", "y", "y">>),
     Str(<<"b", " ", "u", "y">>),
     Str(<<"l", "o", "n">>),
     Str(<<"B", "U", "Y", "S", "E", "L", "L">>)}

SideValues == BuySpellings \cup SellSpellings \cup OtherSpellings \cup {NoneSide}

\* The lists a strategy's run() returns: items (t, side, price)
StrategyOutputs == SeqsUpTo({<<0, sv, 10>> : sv \in SideValues}, MaxSignals)

Whitespace == {" ", "\t", "\n"}

\* str.strip(): leading and trailing whitespace removed
RECURSIVE lstrip(_)
lstrip(chars) ==
    IF chars # <<>> /\ Head(chars) \in Whitespace THEN lstrip(Tail(chars)) ELSE chars

RECURSIVE rstrip(_)
rstrip(chars) ==
    IF chars # <<>> /\ chars[Len(chars)] \in Whitespace
    THEN rstrip(SubSeq(chars, 1, Len(chars) - 1))
    ELSE chars

strip(chars) == rstrip(lstrip(chars))

\* str.upper() on one character of the strings in use
UpperChar(ch) ==
    CASE ch = "b" -> "B" [] ch = "u" -> "U" [] ch = "y" -> "Y"
      [] ch = "s" -> "S" [] ch = "e" -> "E" [] ch = "l" -> "L"
      [] ch = "o" -> "O" [] ch = "n" -> "N" [] ch = "g" -> "G"
      [] ch = "h" -> "H" [] ch = "r" -> "R" [] ch = "t" -> "T"
      [] ch = "d" -> "D"
      [] OTHER -> ch

upper(chars) == [k \in 1..Len(chars) |-> UpperChar(chars[k])]

\* (s or ""): None and the empty string give ""
OrEmpty(sv) == IF sv.none \/ sv.chars = <<>> THEN <<>> ELSE sv.chars

\* The result of a call: a returned side, or ValueError raised
Returned(sd) == [ok |-> TRUE, side |-> sd]
ValueError == [ok |-> FALSE, side |-> "ValueError"]

\* Variant: the side is upper-cased but not stripped
map_side_unstripped(sv) ==
    LET s2 == upper(OrEmpty(sv))
    IN  IF s2 \in {<<"L", "O", "N", "G">>, <<"B", "U", "Y">>} THEN Returned("BUY")
        ELSE IF s2 \in {<<"S", "H", "O", "R", "T">>, <<"S", "E", "L", "L">>}
        THEN Returned("SELL")
        ELSE ValueError

\* _map_side
map_side(sv) ==
    LET s2 == upper(strip(OrEmpty(sv)))
    IN  IF s2 \in {<<"L", "O", "N", "G">>, <<"B", "U", "Y">>} THEN Returned("BUY")
        ELSE IF s2 \in {<<"S", "H", "O", "R", "T">>, <<"S", "E", "L", "L">>}
        THEN Returned("SELL")
        ELSE ValueError

\* StrategySurface.run after trades = inst.run(): out = []
SurfaceInit ==
    /\ EngineIdle
    /\ events = <<>>
    /\ cursor = 0
    /\ last_call = NoCall
    /\ SharedIdle
    /\ first_run = NoRun
    /\ strategy_trades \in StrategyOutputs
    /\ surface_i = 0
    /\ out = <<>>
    /\ surface_pc = "loop"
    /\ JsonlIdle

\* One iteration of  for t, side, price in trades:  out.append((t,
\* _map_side(side), float(price))), or the ValueError leaving run()
SurfaceStep ==
    /\ surface_pc = "loop"
    /\ surface_i < Len(strategy_trades)
    /\ LET item == strategy_trades[surface_i + 1]
           m == map_side(item[2])
       IN  IF m.ok
           THEN /\ out' = Append(out, <<item[1], m.side, R(item[3])>>)
                /\ surface_i' = surface_i + 1
                /\ surface_pc' = "loop"
           ELSE /\ surface_pc' = "raised"
                /\ UNCHANGED <<out, surface_i>>
    /\ UNCHANGED <<strategy_trades, engineVars, replayVars, sharedVars, rerunVars, jsonlVars>>

\* return out
SurfaceReturn ==
    /\ surface_pc = "loop"
    /\ surface_i = Len(strategy_trades)
    /\ surface_pc' = "returned"
    /\ UNCHANGED <<strategy_trades, surface_i, out>>
    /\ UNCHANGED <<engineVars, replayVars, sharedVars, rerunVars, jsonlVars>>

SurfaceNext == SurfaceStep \/ SurfaceReturn

SurfaceSpec == SurfaceInit /\ [][SurfaceNext]_vars

-----------------------------------------------------------------------------
(* replay.py / events.py: wire events written to a JSONL file and read back *)

\* Python values of the event fields, each with the text str() gives for it
PyInt(txt) == [py |-> "int", v |-> txt]
PyFloat(txt) == [py |-> "float", v |-> txt]
PyStr(txt) == [py |-> "str", v |-> txt]
PyNone == [py |-> "NoneType", v |-> "None"]
PyDatetime(txt) == [py |-> "datetime", v |-> txt]

\* The values the time column of the bars may hold: an epoch integer, an
\* epoch float, an ISO-8601 string, a timezone-aware datetime with
\* microseconds
TimeValues ==
    {PyInt("0"), PyFloat("1704187800.123456"),
     PyStr("2024-01-02T09:30:00.123456+00:00"),
     PyDatetime("2024-01-02 09:30:00.123456+00:00")}

\* Wire events of an engine log whose bars carry the time tv
WireSamples(tv) ==
    {to_wire(BarEvent(tv, PyInt("0"), PyFloat("10.0"), PyFloat("12.0"), PyFloat("9.0"),
                      PyFloat("11.0"), PyNone)),
     to_wire(FillEvent(tv, PyStr("OPEN"), PyStr("BUY"), PyFloat("10.0"), PyFloat("10.0"),
                       PyFloat("0.0"), PyInt("0"), tv, PyFloat("100.0"), PyStr("Signal"))),
     to_wire(EquityEvent(tv, PyFloat("1100.0")))}

WireLogs == SeqsUpTo(UNION {WireSamples(tv) : tv \in TimeValues}, MaxLog)

\* JSON values of a line
JNumber(txt) == [json |-> "number", v |-> txt]
JString(txt) == [json |-> "string", v |-> txt]
JNull == [json |-> "null", v |-> "null"]

\* json.dumps(..., default=str) on one value: int and float become numbers,
\* str a string, None null; any other object goes through default, str(x),
\* and is written as a string
json_dumps_value(x) ==
    CASE x.py \in {"int", "float"} -> JNumber(x.v)
      [] x.py = "str" -> JString(x.v)
      [] x.py = "NoneType" -> JNull
      [] OTHER -> JString(x.v)

\* json.dumps(e, default=str) on a wire event
json_dumps(e) ==
    [time |-> json_dumps_value(e.time), type |-> JString(e.type),
     payload |-> [f \in DOMAIN e.payload |-> json_dumps_value(e.payload[f])]]

\* Number texts without fraction or exponent, which json.loads reads as int
IntTexts == {"0", "1"}

\* json.loads on one value
json_loads_value(j) ==
    CASE j.json = "number" -> IF j.v \in IntTexts THEN PyInt(j.v) ELSE PyFloat(j.v)
      [] j.json = "string" -> PyStr(j.v)
      [] j.json = "null" -> PyNone

\* json.loads(line)
json_loads(line) ==
    [time |-> json_loads_value(line.time), type |-> line.type.v,
     payload |-> [f \in DOMAIN line.payload |-> json_loads_value(line.payload[f])]]

\* The engine's wire events are about to be written
JsonlInit ==
    /\ EngineIdle
    /\ events = <<>>
    /\ cursor = 0
    /\ last_call = NoCall
    /\ SharedIdle
    /\ first_run = NoRun
    /\ SurfaceIdle
    /\ written \in WireLogs
    /\ file = <<>>
    /\ loaded = <<>>

\* dump_events_jsonl: for e in events: f.write(json.dumps(e, default=str) + "\n")
DumpLine ==
    /\ Len(file) < Len(written)
    /\ file' = Append(file, json_dumps(written[Len(file) + 1]))
    /\ UNCHANGED <<written, loaded, engineVars, replayVars, sharedVars, rerunVars, surfaceVars>>

\* load_events_jsonl on the closed file: for line in f:
\* events.append(json.loads(line))
LoadLine ==
    /\ Len(file) = Len(written)
    /\ Len(loaded) < Len(file)
    /\ loaded' = Append(loaded, json_loads(file[Len(loaded) + 1]))
    /\ UNCHANGED <<written, file, engineVars, replayVars, sharedVars, rerunVars, surfaceVars>>

JsonlNext == DumpLine \/ LoadLine

JsonlSpec == JsonlInit /\ [][JsonlNext]_vars

-----------------------------------------------------------------------------
(* Reading the event log *)

NEvents == Len(internal_events)
Ev(k) == internal_events[k]

IsFill(e, action) == e.type = "fill" /\ e.action = action

\* Fill(OPEN) events minus Fill(CLOSE) events among the first k events
Balance(k) ==
    Cardinality({j \in 1..k : IsFill(Ev(j), "OPEN")})
    - Cardinality({j \in 1..k : IsFill(Ev(j), "CLOSE")})

\* Index (1-based) in df of the first bar whose time is >= tm; 0 if none
FirstBarAtOrAfter(tm) ==
    IF \E i \in 1..Len(df) : df[i].time >= tm
    THEN CHOOSE i \in 1..Len(df) :
            /\ df[i].time >= tm
            /\ \A j \in 1..(i - 1) : df[j].time < tm
    ELSE 0

\* Index in the log of the last Bar event before position k; 0 if none
LastBarEventBefore(k) ==
    IF \E j \in 1..(k - 1) : Ev(j).type = "bar"
    THEN CHOOSE j \in 1..(k - 1) :
            /\ Ev(j).type = "bar"
            /\ \A m \in (j + 1)..(k - 1) : Ev(m).type # "bar"
    ELSE 0

\* The equity eq after equity += pnl for each trade of tr closed at or before
\* time tm, and for each trade of tr, in the order of the list
RECURSIVE SumPnlUpTo(_, _, _)
SumPnlUpTo(eq, tr, tm) ==
    IF tr = <<>> THEN eq
    ELSE LET rest == SumPnlUpTo(eq, SubSeq(tr, 1, Len(tr) - 1), tm)
             last == tr[Len(tr)]
         IN  IF last.exit_time <= tm THEN RAdd(rest, last.pnl) ELSE rest

RECURSIVE SumPnl(_, _)
SumPnl(eq, tr) ==
    IF tr = <<>> THEN eq
    ELSE RAdd(SumPnl(eq, SubSeq(tr, 1, Len(tr) - 1)), tr[Len(tr)].pnl)

-----------------------------------------------------------------------------
(* Claims *)

\* C1: single-position invariant. In every prefix of the event log the
\* Fill(OPEN) events outnumber the Fill(CLOSE) events by 0 or 1 (so a
\* Fill(OPEN) is never emitted while a position is open), and the engine
\* holds a position exactly when the log has one more OPEN than CLOSE.
C1_SinglePosition ==
    /\ \A k \in 0..NEvents : Balance(k) \in {0, 1}
    /\ (Balance(NEvents) = 1) <=> (side # None)

\* C1 witness: a second position is open after a reversal whose exit was
\* delayed by exit latency while the new entry was already pending.
C1_Witness ==
    /\ side # None
    /\ cfg.exit_latency_bars > 0
    /\ Len(trades) >= 1
    /\ trades[Len(trades)].reason = "ReverseSignal"

\* initial_equity + sum(pnl): the pnl of the trades of tr closed at or
\* before time tm summed from 0, and the sum added to the initial equity
InitialPlusSumUpTo(tr, tm) == RAdd(cfg.initial_equity, SumPnlUpTo(R(0), tr, tm))
InitialPlusSum(tr) == RAdd(cfg.initial_equity, SumPnl(R(0), tr))

\* C2 (as claimed): equity continuity. Every curve entry equals
\* initial_equity + sum(pnl of all trades closed at or before that bar's
\* time); when the run has returned, the final equity and the last curve
\* entry equal initial_equity + sum(all per-trade pnl).
C2_EquityIsInitialPlusSum ==
    /\ \A i \in 1..Len(curve) :
          REq(curve[i], InitialPlusSumUpTo(trades, df[i].time))
    /\ pc = "done" =>
          /\ REq(equity, InitialPlusSum(trades))
          /\ Len(curve) > 0 => curve[Len(curve)] = equity

\* C2 (amended): equity continuity. Every curve entry is the float obtained
\* from the initial equity by adding to it, one after the other in the order
\* of closing, the pnl of the trades closed at or before that bar's time;
\* when the run has returned the same holds of the final equity over all
\* trades, and the last curve entry is the final equity.
C2_EquityContinuity ==
    /\ \A i \in 1..Len(curve) :
          curve[i] = SumPnlUpTo(cfg.initial_equity, trades, df[i].time)
    /\ pc = "done" =>
          /\ equity = SumPnl(cfg.initial_equity, trades)
          /\ Len(curve) > 0 => curve[Len(curve)] = equity

\* C2 witness: a finished run with at least two trades, the last one an
\* EndOfData close with non-zero pnl, whose final equity is not the float
\* initial_equity + sum(pnl).
C2_Witness ==
    /\ pc = "done"
    /\ Len(trades) >= 2
    /\ trades[Len(trades)].reason = "EndOfData"
    /\ ~IsZero(trades[Len(trades)].pnl)
    /\ ~REq(equity, InitialPlusSum(trades))

\* C3 (as claimed): latency delay. Every Fill(OPEN) of a plain signal entry
\* with entry latency n > 0 carries the time of the bar n bars after the bar
\* that consumed the signal.
C3_LatencyDelay ==
    \A k \in 1..NEvents :
        (IsFill(Ev(k), "OPEN") /\ Ev(k).reason = "Signal" /\ Ev(k).latency_bars > 0) =>
            LET kbar == FirstBarAtOrAfter(Ev(k).submitted_time)
            IN  /\ kbar + Ev(k).latency_bars <= Len(df)
                /\ Ev(k).time = df[kbar + Ev(k).latency_bars].time

\* C4 (as claimed): with entry latency 0 an entry is same-bar. When the exit
\* checks of a bar are about to run, no entry scheduled while flat is still
\* unfilled, and every Fill(OPEN) of a plain signal entry is emitted among
\* the events of the bar that consumed its signal.
C4_SameBarEntry ==
    cfg.entry_latency_bars = 0 =>
        /\ (pc = "signals" /\ ~SignalDue) => ~(side = None /\ pending_entry # NoOrder)
        /\ \A k \in 1..NEvents :
              (IsFill(Ev(k), "OPEN") /\ Ev(k).reason = "Signal") =>
                  Ev(LastBarEventBefore(k)).time
                      = df[FirstBarAtOrAfter(Ev(k).submitted_time)].time

\* The inputs of the end-to-end scenario: default configuration, one BUY
\* signal at bar 0 with price 100, and the one-price bars 100, 101, 99, 95, 102
\* (as far as the loop has reached them)
ScenarioRun ==
    /\ cfg = DefaultCfg
    /\ sig_input = <<<<0, "BUY", 100>>>>
    /\ df = [i \in 1..Len(df) |-> ScenarioBar(i - 1)]

\* C5: end-to-end scenario. The run opens one long of size 1000 with stop 99
\* and take 102, closes it at bar 3 at 99 with reason StopLoss and pnl -1000,
\* produces exactly one trade and ends with final equity 99000.
C5_EndToEnd ==
    ScenarioRun =>
        /\ side # None =>
              /\ side = "BUY"
              /\ entry_price = R(100)
              /\ size = R(1000)
              /\ stop = R(99)
              /\ take = R(102)
        /\ (pc = "loop" /\ Len(df) \in {2, 3}) => side = "BUY"
        /\ (pc = "done" /\ Len(df) = ScenarioLen) =>
              /\ Len(trades) = 1
              /\ trades[1].side = "BUY"
              /\ trades[1].entry_price = R(100)
              /\ trades[1].size = R(1000)
              /\ trades[1].exit_time = df[4].time
              /\ trades[1].exit_price = R(99)
              /\ trades[1].pnl = R(-1000)
              /\ trades[1].reason = "StopLoss"
              /\ equity = R(99000)
              /\ curve = <<R(100000), R(100000), R(100000), R(99000), R(99000)>>
              /\ Cardinality({k \in 1..NEvents : IsFill(Ev(k), "OPEN")}) = 1

\* C5 witness: the scenario has run over all five bars and returned.
C5_Witness == ScenarioRun /\ pc = "done" /\ Len(df) = ScenarioLen

\* The reversal scenario: reversing allowed, exactly two signals, a BUY at
\* bar a and a SELL at bar a + 1, and the run has returned after enough bars
\* for both latencies to elapse without a stop, take or trailing stop hit.
ReversalScenario(a) ==
    /\ cfg.allow_reverse
    /\ Len(signals) = 2
    /\ signals[1][1] = a /\ Upper(signals[1][2]) = "BUY"
    /\ signals[2][1] = a + 1 /\ Upper(signals[2][2]) = "SELL"
    /\ pc = "done"
    /\ Len(df) >= a + 3 + cfg.exit_latency_bars + cfg.entry_latency_bars
    /\ \A j \in 1..Len(trades) :
          trades[j].reason \notin {"StopLoss", "TakeProfit", "TrailingStop"}

\* The log holds exactly one TradeClosed(ReverseSignal); exactly one
\* Fill(OPEN) follows it in the log, and that one has side SELL; no prefix
\* of the log has two positions open.
ReversalOutcome ==
    LET rc == {k \in 1..NEvents :
                  Ev(k).type = "trade_closed" /\ Ev(k).reason = "ReverseSignal"}
    IN  /\ Cardinality(rc) = 1
        /\ \A k \in rc :
              LET opens == {j \in (k + 1)..NEvents : IsFill(Ev(j), "OPEN")}
              IN  /\ Cardinality(opens) = 1
                  /\ \A j \in opens : Ev(j).side = "SELL"
        /\ \A k \in 0..NEvents : Balance(k) \in {0, 1}

\* C6 (as claimed): reversal scenario. With allow_reverse, whatever the
\* latencies, a BUY signal followed by a SELL signal on the next bar (enough
\* later bars, no stop or take hit) yields exactly one
\* TradeClosed(ReverseSignal) followed by exactly one new Fill(OPEN) of side
\* SELL, and never two open positions.
C6_ReversalAnyLatency ==
    \A a \in SignalTimes : ReversalScenario(a) => ReversalOutcome

\* Kind of an event for the per-bar order
Kind(e) ==
    CASE e.type = "bar" -> "Bar"
      [] e.type = "signal" -> "Signal"
      [] e.type = "equity" -> "Equity"
      [] e.type = "trade_closed" -> "TradeClosed"
      [] e.type = "fill" -> IF e.action = "OPEN" THEN "FillOpen" ELSE "FillClose"

\* The kinds that may directly follow an event of kind kd within one bar
MayFollow(kd) ==
    CASE kd = "Bar" -> {"TradeClosed", "FillOpen", "Signal", "Equity"}
      [] kd = "TradeClosed" -> {"FillClose"}
      [] kd = "FillClose" -> {"FillOpen", "Signal", "Equity"}
      [] kd = "FillOpen" -> {"Signal", "Equity"}
      [] kd = "Signal" -> {"Signal", "Equity"}
      [] kd = "Equity" -> {"Bar"}

\* The Bar events come in index order: the j-th Bar event has index j - 1
BarsInOrder ==
    \A k \in 1..NEvents :
        Ev(k).type = "bar" =>
            Ev(k).index = Cardinality({j \in 1..(k - 1) : Ev(j).type = "bar"})

\* Per-bar order
StrictOrder ==
    /\ NEvents > 0 => Ev(1).type = "bar"
    /\ \A k \in 1..(NEvents - 1) : Kind(Ev(k + 1)) \in MayFollow(Kind(Ev(k)))
    /\ BarsInOrder
    /\ pc \in {"loop", "done"} => (NEvents > 0 => Ev(NEvents).type = "equity")

\* C7 (as claimed): per-bar event order. The events of a bar are contiguous
\* and ordered Bar, then TradeClosed and Fill(CLOSE) if a pending exit fills,
\* then Fill(OPEN) if a pending entry fills, then the Signal events, then
\* exactly one Equity event, which is the bar's last event, for every bar,
\* the last one included.
C7_StrictEventOrder == StrictOrder

\* Open price carried by the Bar event with time tm
BarOpenAt(tm) ==
    LET k == CHOOSE j \in 1..NEvents : Ev(j).type = "bar" /\ Ev(j).time = tm
    IN  Ev(k).open

\* The market action a fill executes
FillAction(e) == IF e.action = "OPEN" THEN e.side ELSE CloseAction(e.side)

\* The executed price of fill e lies on the adverse side of price base
Adverse(e, base) ==
    IF FillAction(e) = "BUY" THEN RLt(base, e.price) ELSE RLt(e.price, base)

\* C8 (amended): slippage direction. For bps > 0 every fill executed as a BUY
\* action has an executed price strictly greater, and every fill executed as
\* a SELL action strictly less, than its pre-slippage base price: the fill's
\* intended price if it was scheduled with latency 0, the open of the fill
\* bar if it was scheduled with latency > 0.
C8_SlippageDirection ==
    \A k \in 1..NEvents :
        (Ev(k).type = "fill" /\ RLt(R(0), Ev(k).slippage_bps)) =>
            Adverse(Ev(k), IF Ev(k).latency_bars > 0 THEN BarOpenAt(Ev(k).time)
                           ELSE Ev(k).intended_price)

\* C8 witness: a close filled with slippage after latency, at a bar whose
\* open differs from the intended price, and an entry filled with slippage.
C8_Witness ==
    /\ \E k \in 1..NEvents :
          /\ IsFill(Ev(k), "CLOSE")
          /\ RLt(R(0), Ev(k).slippage_bps)
          /\ Ev(k).latency_bars > 0
          /\ BarOpenAt(Ev(k).time) # Ev(k).intended_price
    /\ \E k \in 1..NEvents :
          IsFill(Ev(k), "OPEN") /\ RLt(R(0), Ev(k).slippage_bps)

\* C8 (as claimed): the executed price is on the adverse side of the fill's
\* intended price, for every latency setting.
C8_SlippageVsIntended ==
    \A k \in 1..NEvents :
        (Ev(k).type = "fill" /\ RLt(R(0), Ev(k).slippage_bps)) =>
            Adverse(Ev(k), Ev(k).intended_price)

\* C9: no-signal run. With an empty signal list there are no trades, every
\* curve entry equals initial_equity, the log holds only Bar and Equity
\* events, and the returned curve has one entry and the returned log one Bar
\* and one Equity event per bar.
C9_NoSignalRun ==
    sig_input = <<>> =>
        /\ trades = <<>>
        /\ \A i \in 1..Len(curve) : curve[i] = cfg.initial_equity
        /\ \A k \in 1..NEvents : Ev(k).type \in {"bar", "equity"}
        /\ pc = "done" =>
              /\ Len(curve) = Len(df)
              /\ Len(wire_events) = 2 * Len(df)
              /\ \A k \in 1..Len(wire_events) :
                    wire_events[k].type = IF k % 2 = 1 THEN "BarEvent" ELSE "EquityEvent"

\* C9 witness: a run over several bars with no signal has returned.
C9_Witness == sig_input = <<>> /\ pc = "done" /\ Len(df) >= 3

\* C10: the equity curve has one entry per bar: at the end of every loop
\* iteration and when the run has returned, also after an end-of-data close.
C10_CurveLength ==
    /\ pc \in {"loop", "done"} => Len(curve) = Len(df)
    /\ pc \notin {"loop", "done"} => Len(curve) = Len(df) - 1

\* C10 witness: a run with latency on both sides has returned after an
\* end-of-data close.
C10_Witness ==
    /\ pc = "done"
    /\ cfg.exit_latency_bars > 0
    /\ cfg.entry_latency_bars > 0
    /\ Len(df) = MaxBars
    /\ Len(trades) >= 1
    /\ trades[Len(trades)].reason = "EndOfData"

\* C11 (as claimed): the Equity events reproduce the returned equity curve.
\* When the run has returned, the replay equity view at the last index of the
\* returned log has one row per bar, and its equity values equal the returned
\* equity curve in order, also after an end-of-data close.
C11_EquityViewIsCurve ==
    pc = "done" =>
        LET view == equity_upto(wire_events, max_index(wire_events))
        IN  /\ Len(view) = Len(df)
            /\ Len(view) = Len(curve)
            /\ \A i \in 1..Len(view) : i <= Len(curve) => view[i].equity = curve[i]

\* The step that leaves the loop with a position still open
EndOfDataStep == pc = "loop" /\ pc' = "done" /\ side # None

\* The last bar's close moved against the closing action by the exit
\* slippage: down for the sale closing a long, up for the purchase closing
\* any other position
EndOfDataPrice ==
    LET lastclose == R(df[Len(df)].close)
        frac == RDiv(cfg.exit_slippage_bps, R(10000))
    IN  IF RLe(cfg.exit_slippage_bps, R(0)) THEN lastclose
        ELSE IF side = "BUY" THEN RMul(lastclose, RSub(R(1), frac))
        ELSE RMul(lastclose, RAdd(R(1), frac))

\* C12: end-of-data close. If a position is open when the loop ends, the run
\* appends exactly one trade with reason EndOfData, exit time equal to the
\* last bar's time and exit price equal to the last bar's close adjusted by
\* exit slippage, whatever exit_latency_bars is and whether or not an exit is
\* pending; when the run has returned no position is open.
C12_EndOfDataClose ==
    /\ [](pc = "done" => side = None)
    /\ [][EndOfDataStep =>
            /\ Len(trades') = Len(trades) + 1
            /\ SubSeq(trades', 1, Len(trades)) = trades
            /\ trades'[Len(trades')].reason = "EndOfData"
            /\ trades'[Len(trades')].exit_time = df[Len(df)].time
            /\ trades'[Len(trades')].exit_price = EndOfDataPrice
            /\ trades'[Len(trades')].side = side
            /\ side' = None]_vars

\* C12 witness: a run with exit latency and exit slippage has returned after
\* an end-of-data close made while an exit was still pending.
C12_Witness ==
    /\ pc = "done"
    /\ Len(trades) >= 1
    /\ trades[Len(trades)].reason = "EndOfData"
    /\ pending_exit # NoOrder
    /\ cfg.exit_latency_bars > 0
    /\ RLt(R(0), cfg.exit_slippage_bps)
    /\ trades[Len(trades)].exit_price # R(df[Len(df)].close)

\* The step that runs the exit checks and ends the bar
ExitCheckStep == pc = "signals" /\ pc' = "loop"

\* The bar's range reaches the stop level, the take level
StopReached == IF side = "BUY" THEN RLe(R(row.low), stop) ELSE RLe(stop, R(row.high))
TakeReached == IF side = "BUY" THEN RLe(take, R(row.high)) ELSE RLe(R(row.low), take)

\* C13: exit priority. The exit checks of a bar schedule nothing while flat
\* or while an exit is pending; with a position open and no exit pending, a
\* bar reaching the stop schedules StopLoss even if it also reaches the take,
\* TakeProfit is scheduled exactly when the take is reached and the stop is
\* not, TrailingStop only when neither is reached and trailing_pct > 0; an
\* exit once pending is changed by nothing but its own execution, so at most
\* one exit is scheduled per bar.
C13_ExitPriority ==
    /\ [][ExitCheckStep =>
            /\ (side = None \/ pending_exit # NoOrder) => pending_exit' = pending_exit
            /\ (side # None /\ pending_exit = NoOrder) =>
                  /\ StopReached =>
                        pending_exit' # NoOrder /\ pending_exit'.reason = "StopLoss"
                  /\ (~StopReached /\ TakeReached) =>
                        pending_exit' # NoOrder /\ pending_exit'.reason = "TakeProfit"
                  /\ pending_exit' # NoOrder =>
                        /\ pending_exit'.reason \in {"StopLoss", "TakeProfit", "TrailingStop"}
                        /\ pending_exit'.reason = "TrailingStop" =>
                              /\ ~StopReached
                              /\ ~TakeReached
                              /\ RLt(R(0), cfg.trailing_pct)]_vars
    /\ [][(pending_exit # NoOrder /\ pending_exit' # pending_exit) => pc = "exit"]_vars

\* C13 witness: the exit checks have just scheduled a StopLoss exit on a bar
\* whose range also reaches the take level.
C13_Witness ==
    /\ pc = "loop"
    /\ side # None
    /\ pending_exit # NoOrder
    /\ pending_exit.reason = "StopLoss"
    /\ pending_exit.submitted_time = t
    /\ pending_exit.remaining = pending_exit.latency
    /\ StopReached
    /\ TakeReached

\* The signals of list s with time at most tm, by time, signals of equal
\* time in their order in s
RECURSIVE ByTimeUpTo(_, _)
ByTimeUpTo(s, tm) ==
    IF tm < 0 THEN <<>>
    ELSE ByTimeUpTo(s, tm - 1) \o SelectSeq(s, LAMBDA x : x[1] = tm)

LastSignalTime == CHOOSE m \in SignalTimes : \A x \in SignalTimes : x <= m

IsSignalEv(e) == e.type = "signal"

\* C14: signal consumption order. The Signal events of the log are, in
\* order, the first sig_i signals of the input taken by non-decreasing time
\* with equal times in input order, one event per signal; each lies among the
\* events of the first bar whose time is >= the signal's time; when a bar's
\* iteration has ended exactly the signals with time <= that bar's time have
\* been consumed, so a signal later than the last bar is never consumed.
C14_SignalOrder ==
    LET expected == ByTimeUpTo(sig_input, LastSignalTime)
        sigevs == SelectSeq(internal_events, IsSignalEv)
    IN  /\ Len(expected) = Len(sig_input)
        /\ Len(sigevs) = sig_i
        /\ sig_i <= Len(expected)
        /\ \A j \in 1..Len(sigevs) :
              j <= Len(expected) =>
                  /\ sigevs[j].time = expected[j][1]
                  /\ sigevs[j].side = Upper(expected[j][2])
                  /\ sigevs[j].price = R(expected[j][3])
        /\ \A k \in 1..NEvents :
              Ev(k).type = "signal" =>
                  /\ LastBarEventBefore(k) > 0
                  /\ FirstBarAtOrAfter(Ev(k).time) > 0
                  /\ Ev(LastBarEventBefore(k)).index + 1 = FirstBarAtOrAfter(Ev(k).time)
        /\ pc \in {"loop", "done"} =>
              sig_i = IF Len(df) = 0 THEN 0
                      ELSE Len(ByTimeUpTo(sig_input, df[Len(df)].time))

\* C14 witness: a run given its two signals out of time order has returned
\* after consuming the earlier one; the later one lies after the last bar.
C14_Witness ==
    /\ pc = "done"
    /\ Len(sig_input) = 2
    /\ sig_input[1][1] > sig_input[2][1]
    /\ sig_i = 1
    /\ Len(df) >= 1
    /\ df[Len(df)].time < sig_input[1][1]
    /\ Len(SelectSeq(internal_events, IsSignalEv)) = 1

\* The step that consumes one signal
SignalStep == pc = "signals" /\ sig_i' = sig_i + 1

\* Index in the log of the last Fill(OPEN) before position k; 0 if none
LastOpenBefore(k) ==
    IF \E j \in 1..(k - 1) : IsFill(Ev(j), "OPEN")
    THEN CHOOSE j \in 1..(k - 1) :
            /\ IsFill(Ev(j), "OPEN")
            /\ \A m \in (j + 1)..(k - 1) : ~IsFill(Ev(m), "OPEN")
    ELSE 0

\* Index in the log of the first Signal event after position k whose side
\* differs from sd; 0 if none
FirstOppositeAfter(k, sd) ==
    IF \E j \in (k + 1)..NEvents : Ev(j).type = "signal" /\ Ev(j).side # sd
    THEN CHOOSE j \in (k + 1)..NEvents :
            /\ Ev(j).type = "signal" /\ Ev(j).side # sd
            /\ \A m \in (k + 1)..(j - 1) : ~(Ev(m).type = "signal" /\ Ev(m).side # sd)
    ELSE 0

\* An order (pending entry or Fill(OPEN)) carries the side, price and time
\* of the first opposite-side signal consumed after the Fill(OPEN) at po
CarriesFirstOpposite(po, sd, price, submitted) ==
    /\ po > 0
    /\ LET fo == FirstOppositeAfter(po, Ev(po).side)
       IN  /\ fo > 0
           /\ sd = Ev(fo).side
           /\ price = Ev(fo).price
           /\ submitted = Ev(fo).time

\* C15: reversal scheduling is idempotent. A step that consumes a signal
\* leaves an existing pending exit and an existing pending entry as they are;
\* a pending reversal entry, and every Fill(OPEN) of a reversal, carries the
\* side and price of the first opposite-side signal consumed since the
\* position was opened; between two Fill(OPEN) events at most one trade is
\* closed by a reversal.
C15_ReversalIdempotent ==
    /\ [][SignalStep =>
            /\ pending_exit # NoOrder => pending_exit' = pending_exit
            /\ pending_entry # NoOrder => pending_entry' = pending_entry]_vars
    /\ []((pending_entry # NoOrder /\ pending_entry.reason = "ReverseSignal") =>
            LET po == LastOpenBefore(NEvents + 1)
            IN  CarriesFirstOpposite(po, pending_entry.side, pending_entry.intended_price,
                                     pending_entry.submitted_time))
    /\ [](\A k \in 1..NEvents :
            (IsFill(Ev(k), "OPEN") /\ Ev(k).reason = "ReverseSignal") =>
                LET po == LastOpenBefore(k)
                IN  /\ CarriesFirstOpposite(po, Ev(k).side, Ev(k).intended_price,
                                            Ev(k).submitted_time)
                    /\ Cardinality({j \in po..k : Ev(j).type = "trade_closed"
                                                    /\ Ev(j).reason = "ReverseSignal"}) <= 1)

\* C15 witness: a long position has met two opposite signals of different
\* prices; the exit and the entry scheduled by the first are both pending.
C15_Witness ==
    /\ Len(signals) = 3
    /\ sig_i = 3
    /\ signals[2][3] # signals[3][3]
    /\ side = "BUY"
    /\ pending_exit # NoOrder
    /\ pending_exit.reason = "ReverseSignal"
    /\ pending_entry # NoOrder
    /\ pending_entry.reason = "ReverseSignal"
    /\ pending_entry.side = "SELL"
    /\ pending_entry.intended_price = R(signals[2][3])

\* A signal of the sorted list whose side is neither BUY nor SELL has been consumed
UnknownSideConsumed ==
    \E i \in 1..sig_i : Upper(signals[i][2]) \notin {"BUY", "SELL"}

\* C16 (as claimed): an unrecognized signal side is fatal. Once a signal whose
\* upper-cased side is neither BUY nor SELL has been consumed, the run does
\* not return, and no order is scheduled and no position opened for it.
C16_UnknownSideFatal ==
    UnknownSideConsumed =>
        /\ pc # "done"
        /\ pending_entry # NoOrder => pending_entry.side \in {"BUY", "SELL"}
        /\ side \in {None, "BUY", "SELL"}
        /\ \A k \in 1..NEvents : Ev(k).type = "fill" => Ev(k).side \in {"BUY", "SELL"}

\* The rows reached so far have strictly increasing times
StrictlyIncreasingBars == \A i \in 1..(Len(df) - 1) : df[i].time < df[i + 1].time

\* C17 (as claimed): non-monotonic bars are fatal. A run over rows whose times
\* are not strictly increasing never returns trades, an equity curve or
\* events: every run that has returned went over strictly increasing rows.
C17_DisorderedBarsFatal == pc = "done" => StrictlyIncreasingBars

\* C18 (as claimed): configuration errors are fatal at construction. No run
\* holds a configuration with a negative risk, stop or take percentage.
C18_NegativeConfigRejected ==
    pc # "replay" =>
        /\ RLe(R(0), cfg.risk_per_trade)
        /\ RLe(R(0), cfg.stop_loss_pct)
        /\ RLe(R(0), cfg.take_profit_pct)

\* The index i clamped to the valid indices of a log of n events
Clamped(i, n) ==
    LET lastidx == IF n > 0 THEN n - 1 ELSE 0
    IN  IF i < 0 THEN 0 ELSE IF i > lastidx THEN lastidx ELSE i

\* C19: replay cursor clamping. After any sequence of seek and step calls the
\* cursor index lies in [0, max(0, len(events) - 1)], so that current_time
\* reads an existing event; after seek(i) it is i clamped to that range; a
\* step(n) moves it to index + n clamped to that range; on an empty log the
\* index stays 0 and current_time() is None.
C19_CursorClamped ==
    /\ [](pc = "replay" =>
            /\ cursor \in 0..(IF Len(events) > 0 THEN Len(events) - 1 ELSE 0)
            /\ last_call.op = "seek" => cursor = Clamped(last_call.arg, Len(events))
            /\ events = <<>> => (cursor = 0 /\ current_time(events, cursor) = NoTime)
            /\ events # <<>> =>
                  /\ cursor + 1 \in DOMAIN events
                  /\ current_time(events, cursor) = events[cursor + 1].time)
    /\ [][(pc = "replay" /\ last_call'.op = "step") =>
            cursor' = Clamped(cursor + last_call'.arg, Len(events))]_vars

\* C19 witness: on a log of several events a seek past the end has left the
\* cursor on the last index.
C19_Witness ==
    /\ pc = "replay"
    /\ Len(events) >= 2
    /\ last_call.op = "seek"
    /\ last_call.arg > Len(events)
    /\ cursor = Len(events) - 1

\* The events of the log at indices 0..cur, the prefix the views may read
Prefix(evs, cur) == IF evs = <<>> THEN <<>> ELSE SubSeq(evs, 1, cur + 1)

\* The view rows are, as a collection, the rows made of the events of wire
\* type ty in the prefix: as many rows, and each distinct row as many times
RowsOfPrefix(view, evs, cur, ty, MakeRow(_)) ==
    LET idx == {j \in 1..Len(Prefix(evs, cur)) : evs[j].type = ty}
    IN  /\ Len(view) = Cardinality(idx)
        /\ \A j \in idx :
              Cardinality({k \in 1..Len(view) : view[k] = MakeRow(evs[j])})
                  = Cardinality({m \in idx : MakeRow(evs[m]) = MakeRow(evs[j])})

\* The payload fields each view copies; a missing volume and a missing
\* quantity read as 0
CandleValues(e) ==
    [time |-> [epoch_ns |-> e.time], open |-> e.payload.open, high |-> e.payload.high,
     low |-> e.payload.low, close |-> e.payload.close,
     volume |-> IF e.payload.volume = NoFloat THEN R(0) ELSE e.payload.volume]
EquityValues(e) == [time |-> [epoch_ns |-> e.time], equity |-> e.payload.equity]
FillValues(e) ==
    [time |-> [epoch_ns |-> e.time], action |-> e.payload.action,
     side |-> e.payload.side, price |-> e.payload.price,
     qty |-> IF e.payload.qty = NoFloat THEN R(0) ELSE e.payload.qty,
     reason |-> e.payload.reason]
TradeCloseValues(e) ==
    [time |-> [epoch_ns |-> e.time], side |-> e.payload.side,
     entry_price |-> e.payload.entry_price, exit_price |-> e.payload.exit_price,
     pnl |-> e.payload.pnl, pnl_pct |-> e.payload.pnl_pct, reason |-> e.payload.reason]

\* C20: replay views are derived from the log prefix events[0..cursor] only.
\* At every cursor index the candles view has one row per BarEvent of the
\* prefix, the fills view one per FillEvent, the equity view one per
\* EquityEvent and the closed-trades view one per TradeClosedEvent, each row
\* holding the event's time and the values of its payload; every view equals
\* the view computed on the prefix alone, so no later event influences it.
C20_ViewsFromPrefix ==
    pc = "replay" =>
        LET pre == Prefix(events, cursor)
            last == max_index(pre)
        IN  /\ RowsOfPrefix(candles_upto(events, cursor), events, cursor,
                            "BarEvent", CandleValues)
            /\ RowsOfPrefix(fills_upto(events, cursor), events, cursor,
                            "FillEvent", FillValues)
            /\ RowsOfPrefix(equity_upto(events, cursor), events, cursor,
                            "EquityEvent", EquityValues)
            /\ RowsOfPrefix(trade_closes_upto(events, cursor), events, cursor,
                            "TradeClosedEvent", TradeCloseValues)
            /\ candles_upto(events, cursor) = candles_upto(pre, last)
            /\ fills_upto(events, cursor) = fills_upto(pre, last)
            /\ equity_upto(events, cursor) = equity_upto(pre, last)
            /\ trade_closes_upto(events, cursor) = trade_closes_upto(pre, last)

\* C20 witness: the cursor stands inside a log, before its last event, with
\* a Bar event in the prefix and an event of a viewed type after the cursor.
C20_Witness ==
    /\ pc = "replay"
    /\ Len(events) = MaxLog
    /\ cursor = 1
    /\ last_call.op = "step"
    /\ events[1].type = "BarEvent"
    /\ events[2].type = "EquityEvent"
    /\ events[MaxLog].type = "BarEvent"
    /\ Len(candles_upto(events, cursor)) = 1

\* A step in which stream s reads its views
QueryStepOf(s) == caller'.stream = s /\ caller'.op = "query"

\* The rows of a view stand in nondecreasing order of time
TimeOrdered(view) ==
    \A k \in 1..(Len(view) - 1) : view[k].time.epoch_ns <= view[k + 1].time.epoch_ns

\* What a stream at index i of the log has to return, told from the log
\* alone: each view holds the rows of the events of its type among
\* events[0..i], in order of time, and current_time is the time of events[i]
DeterminedByLog(res, evs, i) ==
    /\ RowsOfPrefix(res.views.candles, evs, i, "BarEvent", CandleValues)
    /\ RowsOfPrefix(res.views.fills, evs, i, "FillEvent", FillValues)
    /\ RowsOfPrefix(res.views.equity, evs, i, "EquityEvent", EquityValues)
    /\ RowsOfPrefix(res.views.trade_closes, evs, i, "TradeClosedEvent",
                    TradeCloseValues)
    /\ TimeOrdered(res.views.candles) /\ TimeOrdered(res.views.fills)
    /\ TimeOrdered(res.views.equity) /\ TimeOrdered(res.views.trade_closes)
    /\ res.now = IF evs = <<>> THEN NoTime ELSE evs[i + 1].time

\* C21: replay determinism. Whatever seek/step history brought a stream to
\* an index of the log, what it returns there (the four views and
\* current_time) is determined by the log and that index alone, so two
\* streams over the same log that read at the same index return identical
\* results; reading the views changes neither any cursor index nor the
\* event list, and reading them again at the same index returns the same
\* result.
C21_ReplayDeterminism ==
    /\ [](\A a \in Streams :
            results[a].index >= 0 =>
                /\ results[a].index \in 0..max_index(events)
                /\ DeterminedByLog(results[a], events, results[a].index))
    /\ [](\A a \in Streams : \A b \in Streams :
            (results[a].index >= 0 /\ results[a].index = results[b].index) =>
                results[a] = results[b])
    /\ [][\A s \in Streams :
            QueryStepOf(s) =>
                /\ cursors' = cursors
                /\ events' = events
                /\ results[s].index = cursors[s] => results'[s] = results[s]]_vars

\* C21 witness: both streams have been queried at the same index, off the
\* start of a full log whose first two events stand against the order of
\* time, with two rows in the equity view, and have since moved apart.
C21_Witness ==
    /\ Len(events) = MaxLog
    /\ results["a"].index = results["b"].index
    /\ results["a"].index > 0
    /\ Len(results["a"].views.equity) = 2
    /\ events[1].time > events[2].time
    /\ cursors["a"] # cursors["b"]

\* C22: shared log, concurrent cursors. With several streams over one event
\* list and their seek, step and view calls interleaved in any order, no call
\* modifies the shared list, a call of one stream leaves every other stream's
\* cursor index and returned views untouched, a seek or step puts the
\* caller's index at the clamped target computed from its own index and
\* argument, and the views a stream returns are those of the shared list at
\* its own index.
C22_SharedLogOwnCursors ==
    /\ [][events' = events]_vars
    /\ [][\A s \in Streams :
            caller'.stream = s =>
                /\ \A x \in Streams \ {s} :
                      cursors'[x] = cursors[x] /\ results'[x] = results[x]
                /\ caller'.op = "seek" =>
                      /\ \E i \in CallArgs : cursors'[s] = Clamped(i, Len(events))
                      /\ results'[s] = results[s]
                /\ caller'.op = "step" =>
                      /\ \E n \in CallArgs :
                            cursors'[s] = Clamped(cursors[s] + n, Len(events))
                      /\ results'[s] = results[s]
                /\ caller'.op = "query" =>
                      /\ cursors'[s] = cursors[s]
                      /\ results'[s].index = cursors[s]
                      /\ results'[s].views = Views(events, cursors[s])]_vars

\* C22 witness: stream b has just moved its cursor while stream a sits at
\* another index holding views it read there earlier.
C22_Witness ==
    /\ Len(events) = MaxLog
    /\ caller.stream = "b"
    /\ caller.op \in {"seek", "step"}
    /\ cursors["b"] = MaxLog - 1
    /\ cursors["a"] = 1
    /\ results["a"].index = 1
    /\ results["a"].views = Views(events, 1)
    /\ results["b"].index = 0

ExpectedSide(sv) ==
    IF sv \in BuySpellings THEN "BUY"
    ELSE IF sv \in SellSpellings THEN "SELL"
    ELSE "unknown"

UnknownSideAt(k) == ExpectedSide(strategy_trades[k][2]) = "unknown"

\* C24: signal adapter side mapping. _map_side returns BUY for every
\* spelling of LONG or BUY and SELL for every spelling of SHORT or SELL, in
\* any case and with surrounding whitespace, and raises ValueError for every
\* other value, the empty string and None included; StrategySurface.run
\* returns one signal per strategy trade, each with the mapped side BUY or
\* SELL, when every side is known, and raises, returning nothing, when any
\* side is unknown.
C24_SideMapping ==
    /\ \A sv \in SideValues :
          map_side(sv) = IF ExpectedSide(sv) = "unknown" THEN ValueError
                         ELSE Returned(ExpectedSide(sv))
    /\ surface_pc \in {"loop", "returned", "raised"} =>
          \A k \in 1..Len(out) :
              /\ out[k][2] \in {"BUY", "SELL"}
              /\ out[k][2] = ExpectedSide(strategy_trades[k][2])
              /\ out[k][1] = strategy_trades[k][1]
              /\ out[k][3] = R(strategy_trades[k][3])
    /\ surface_pc = "returned" =>
          /\ Len(out) = Len(strategy_trades)
          /\ \A k \in 1..Len(strategy_trades) : ~UnknownSideAt(k)
    /\ surface_pc = "raised" =>
          \E k \in 1..Len(strategy_trades) : UnknownSideAt(k)
    /\ (surface_pc = "loop" /\ surface_i < Len(strategy_trades)) =>
          \A k \in 1..surface_i : ~UnknownSideAt(k)

\* C24 witness: run() has raised on a list whose first side was a padded
\* lower-case spelling it had already mapped and whose last side is None.
C24_Witness ==
    /\ surface_pc = "raised"
    /\ Len(strategy_trades) = MaxSignals
    /\ strategy_trades[1][2] = Str(<<" ", "B", "u", "y", " ">>)
    /\ strategy_trades[MaxSignals][2] = NoneSide
    /\ Len(out) = MaxSignals - 1
    /\ out[1][2] = "BUY"

\* The file has been written and read back to its end
RoundTripDone == Len(file) = Len(written) /\ Len(loaded) = Len(file)

\* C25: wire round trip. Writing wire events with dump_events_jsonl and
\* reading them back with load_events_jsonl returns as many events in the
\* same order, each with the type name and a time equal to the original's
\* and with every payload field preserved.
C25_WireRoundTrip ==
    RoundTripDone =>
        /\ Len(loaded) = Len(written)
        /\ \A k \in 1..Len(written) :
              /\ loaded[k].type = written[k].type
              /\ loaded[k].time = written[k].time
              /\ loaded[k].payload = written[k].payload

\* base moved against the order by bps basis points, or base itself when
\* bps is not positive
SlippedFrom(base, action_side, bps) ==
    IF RLe(bps, R(0)) THEN base
    ELSE IF action_side = "BUY"
         THEN RMul(base, RAdd(R(1), RDiv(bps, R(10000))))
         ELSE RMul(base, RSub(R(1), RDiv(bps, R(10000))))

\* The steps in which a pending exit and a pending entry fill
ExitFillStep == pc = "exit" /\ side # None /\ side' = None
EntryFillStep == pc = "entry" /\ side = None /\ side' # None

\* The price an order fills from on the current bar
FillBase(order) == IF order.latency > 0 THEN R(row.open) ELSE order.intended_price

\* C26: fill price base. A pending entry or exit fills at its base price
\* moved by the slippage of its side; the base is the open of the bar on
\* which it fills when the order was scheduled with latency > 0 and the
\* order's intended price when it was scheduled with latency 0. The
\* intended price is the signal's price for an entry, the close of the bar
\* of the reversing signal for a reversal exit, and the stop, take or
\* trailing level for a protective exit.
C26_FillPriceBase ==
    /\ [][ExitFillStep =>
             trades'[Len(trades')].exit_price =
                 SlippedFrom(FillBase(pending_exit), CloseAction(side),
                             cfg.exit_slippage_bps)]_vars
    /\ [][EntryFillStep =>
             entry_price' = SlippedFrom(FillBase(pending_entry), pending_entry.side,
                                        cfg.entry_slippage_bps)]_vars
    /\ [][(SignalStep /\ pending_entry = NoOrder /\ pending_entry' # NoOrder) =>
             /\ pending_entry'.intended_price = R(signals[sig_i + 1][3])
             /\ pending_entry'.latency = cfg.entry_latency_bars]_vars
    /\ [][(SignalStep /\ pending_exit = NoOrder /\ pending_exit' # NoOrder) =>
             /\ pending_exit'.intended_price = R(row.close)
             /\ pending_exit'.latency = cfg.exit_latency_bars]_vars
    /\ [][(ExitCheckStep /\ pending_exit = NoOrder /\ pending_exit' # NoOrder) =>
             /\ pending_exit'.latency = cfg.exit_latency_bars
             /\ pending_exit'.reason = "StopLoss" => pending_exit'.intended_price = stop
             /\ pending_exit'.reason = "TakeProfit" => pending_exit'.intended_price = take
             /\ pending_exit'.reason = "TrailingStop" =>
                   pending_exit'.intended_price =
                       IF side = "BUY" THEN RSub(best', RMul(cfg.trailing_pct, entry_price))
                       ELSE RAdd(best', RMul(cfg.trailing_pct, entry_price))]_vars

\* C26 witness: in one run an entry scheduled with latency 0 has filled from
\* the signal's price and a stop exit scheduled with latency 1 has filled
\* from the open of the next bar, which differs from the stop level.
C26_Witness ==
    /\ cfg.entry_latency_bars = 0
    /\ cfg.exit_latency_bars > 0
    /\ RLt(R(0), cfg.exit_slippage_bps)
    /\ \E j \in 1..NEvents : \E k \in 1..NEvents :
          /\ IsFill(Ev(j), "OPEN") /\ Ev(j).latency_bars = 0
          /\ Ev(j).price # Ev(j).intended_price
          /\ IsFill(Ev(k), "CLOSE") /\ Ev(k).latency_bars > 0
          /\ Ev(k).reason = "StopLoss"
          /\ Ev(k).intended_price # BarOpenAt(Ev(k).time)
          /\ Ev(k).price = SlippedFrom(BarOpenAt(Ev(k).time), CloseAction(Ev(k).side),
                                       cfg.exit_slippage_bps)

\* The stop distance used for sizing: stop_loss_pct x price, guarded at 1e-9
\* x < 1e-9
BelowEps(x) == RLt(x, Eps)

GuardedStopDistance(price) ==
    LET dist == RMul(cfg.stop_loss_pct, price)
    IN  IF BelowEps(dist) THEN Eps ELSE dist

\* C27: sizing uses equity at the fill. When an entry fills, the position's
\* size is (equity at that moment x risk_per_trade) / (stop_loss_pct x
\* executed entry price), the denominator guarded at 1e-9; the Fill(OPEN)
\* event carries that size; stop and take lie stop_loss_pct and
\* take_profit_pct of the executed price away from it, on the losing and
\* winning side; and the equity used is the initial equity plus the pnl of
\* every trade closed so far, so in a reversal it includes the pnl of the
\* position closed on that bar.
C27_SizingAtFill ==
    [][EntryFillStep =>
          LET opened == internal_events'[Len(internal_events')]
              sign == IF side' = "BUY" THEN R(1) ELSE R(0 - 1)
          IN  /\ size' = RDiv(RMul(equity, cfg.risk_per_trade),
                              GuardedStopDistance(entry_price'))
              /\ IsFill(opened, "OPEN") /\ opened.qty = size'
              /\ opened.price = entry_price'
              /\ stop' = RSub(entry_price',
                              RMul(sign, RMul(cfg.stop_loss_pct, entry_price')))
              /\ take' = RAdd(entry_price',
                              RMul(sign, RMul(cfg.take_profit_pct, entry_price')))
              /\ equity = SumPnl(cfg.initial_equity, trades)
              /\ equity' = equity]_vars

\* C27 witness: a reversal entry has just filled with slippage on the bar on
\* which the previous position was closed at a profit or loss, so its size
\* differs from the size the initial equity would give.
C27_Witness ==
    /\ pc = "signals"
    /\ side # None
    /\ entry_time # NoTime
    /\ Len(trades) >= 1
    /\ trades[Len(trades)].exit_time = row.time
    /\ ~IsZero(trades[Len(trades)].pnl)
    /\ IsFill(Ev(NEvents), "OPEN")
    /\ Ev(NEvents).reason = "ReverseSignal"
    /\ Ev(NEvents).price # Ev(NEvents).intended_price
    /\ size # RDiv(RMul(cfg.initial_equity, cfg.risk_per_trade),
                   RMul(cfg.stop_loss_pct, entry_price))

\* The run has neither slippage nor latency
ZeroSlippageZeroLatency ==
    /\ cfg.entry_slippage_bps = R(0) /\ cfg.exit_slippage_bps = R(0)
    /\ cfg.entry_latency_bars = 0 /\ cfg.exit_latency_bars = 0

\* Equity when trade number j was entered: the initial equity plus the pnl
\* of the trades closed before it
EquityAtEntry(j) == SumPnl(cfg.initial_equity, SubSeq(trades, 1, j - 1))

\* The amount risked by trade number j: equity at entry x risk_per_trade
RiskedAmount(j) == RMul(EquityAtEntry(j), cfg.risk_per_trade)

\* Trade number j was closed by its stop, set at a distance above 1e-9
StoppedOut(j) ==
    /\ trades[j].reason = "StopLoss"
    /\ ~BelowEps(RMul(cfg.stop_loss_pct, trades[j].entry_price))

\* C28 (as claimed): stop-loss loses exactly the risked amount. With zero
\* slippage and zero latency and a stop distance above 1e-9, every trade
\* closed with reason StopLoss has pnl = -(equity at entry x
\* risk_per_trade), whether the position was long or short.
C28_StopLossLosesRiskExactly ==
    ZeroSlippageZeroLatency =>
        \A j \in 1..Len(trades) :
            StoppedOut(j) => REq(trades[j].pnl, RNeg(RiskedAmount(j)))

\* The stop distance of trade number j and the stop price set from it
StopDistance(j) == RMul(cfg.stop_loss_pct, trades[j].entry_price)
StopPrice(j) ==
    IF trades[j].side = "BUY" THEN RSub(trades[j].entry_price, StopDistance(j))
    ELSE RAdd(trades[j].entry_price, StopDistance(j))

\* C28 (amended): stop-loss loses the risked amount as floats compute it.
\* With zero slippage and zero latency and a stop distance above 1e-9,
\* every trade closed with reason StopLoss exits at its stop price, entry
\* minus the stop distance for a long and entry plus it for a short, has
\* size = (equity at entry x risk_per_trade) / stop distance, and has pnl =
\* (stop - entry) x size for a long and (entry - stop) x size for a short,
\* every operation rounded as a float, which is -(equity at entry x
\* risk_per_trade) only up to that rounding.
C28_StopLossLosesRisk ==
    ZeroSlippageZeroLatency =>
        \A j \in 1..Len(trades) :
            StoppedOut(j) =>
                /\ trades[j].exit_price = StopPrice(j)
                /\ trades[j].size = RDiv(RiskedAmount(j), StopDistance(j))
                /\ trades[j].pnl =
                      IF trades[j].side = "BUY"
                      THEN RMul(RSub(StopPrice(j), trades[j].entry_price),
                                trades[j].size)
                      ELSE RMul(RSub(trades[j].entry_price, StopPrice(j)),
                                trades[j].size)

\* C28 witness: a long position entered at 11 was stopped out at 9.9 with
\* a pnl that is not the float -(equity at entry x risk_per_trade).
C28_Witness ==
    /\ ZeroSlippageZeroLatency
    /\ \E j \in 1..Len(trades) :
          /\ StoppedOut(j)
          /\ trades[j].side = "BUY"
          /\ trades[j].entry_price = R(11)
          /\ ~REq(trades[j].pnl, RNeg(RiskedAmount(j)))

\* C29: degenerate sizing never fails. With stop_loss_pct = 0 a due entry
\* fills without error; the position opens with size = equity x
\* risk_per_trade / 1e-9, a finite number, and its stop at the entry price;
\* and a second run on the same inputs returns the same trades, curve and
\* events.
C29_DegenerateSizing ==
    /\ [](cfg.stop_loss_pct = R(0) =>
            /\ side # None =>
                  /\ size = RDiv(RMul(equity, cfg.risk_per_trade), Eps)
                  /\ IsFinite(size)
                  /\ stop = entry_price
            /\ \A k \in 1..NEvents :
                  IsFill(Ev(k), "OPEN") =>
                      IsFinite(Ev(k).qty) /\ RLt(R(0), Ev(k).qty)
            /\ (first_run # NoRun /\ pc = "done") =>
                  /\ trades = first_run.trades
                  /\ curve = first_run.curve
                  /\ wire_events = first_run.wire_events)
    /\ [][(cfg.stop_loss_pct = R(0) /\ pc = "entry" /\ EntryDue) =>
             /\ pc' = "signals"
             /\ side' = pending_entry.side
             /\ size' = RDiv(RMul(equity, cfg.risk_per_trade), Eps)
             /\ IsFill(internal_events'[Len(internal_events')], "OPEN")]_vars

\* C29 witness: with stop_loss_pct = 0 a second run has finished with a
\* trade of size 1.0 / 1e-9 that was closed at a loss at the end of the data.
C29_Witness ==
    /\ cfg.stop_loss_pct = R(0)
    /\ first_run # NoRun
    /\ pc = "done"
    /\ Len(trades) >= 1
    /\ trades[Len(trades)].size = RDiv(R(1), Eps)
    /\ RLt(trades[Len(trades)].pnl, R(0))
    /\ trades = first_run.trades

\* The trailing stop level of the open position
TrailLevel(sd, b, entry) ==
    IF sd = "BUY" THEN RSub(b, RMul(cfg.trailing_pct, entry))
    ELSE RAdd(b, RMul(cfg.trailing_pct, entry))

\* A step during which the position stays open
PositionHeld == side # None /\ side' = side

\* C30: trailing tracking. best-price-since-entry starts at the entry fill
\* price; while a long position stays open it never decreases (for a short:
\* never increases), so the trailing level never moves against the
\* position; on a bar without a pending exit it becomes max(best, high)
\* (short: min(best, low)) and a trailing stop scheduled on that bar is
\* tested against and placed at the level computed from the updated
\* best; on a bar where an exit is already pending it is left as it is.
C30_TrailingTracking ==
    /\ [][EntryFillStep => best' = entry_price']_vars
    /\ [][PositionHeld =>
             /\ entry_price' = entry_price
             /\ side = "BUY" =>
                   /\ RLe(best, best')
                   /\ RLe(TrailLevel(side, best, entry_price),
                          TrailLevel(side, best', entry_price))
             /\ side = "SELL" =>
                   /\ RLe(best', best)
                   /\ RLe(TrailLevel(side, best', entry_price),
                          TrailLevel(side, best, entry_price))
             /\ ~ExitCheckStep => best' = best]_vars
    /\ [][(ExitCheckStep /\ side # None /\ pending_exit # NoOrder) =>
             best' = best /\ pending_exit' = pending_exit]_vars
    /\ [][(ExitCheckStep /\ side # None /\ pending_exit = NoOrder) =>
             /\ side = "BUY" => best' = RMax(best, R(row.high))
             /\ side = "SELL" => best' = RMin(best, R(row.low))
             /\ (pending_exit' # NoOrder /\ pending_exit'.reason = "TrailingStop") =>
                   /\ pending_exit'.intended_price =
                          TrailLevel(side, best', entry_price)
                   /\ IF side = "BUY"
                      THEN RLe(R(row.low), TrailLevel(side, best', entry_price))
                      ELSE RLe(TrailLevel(side, best', entry_price), R(row.high))
             /\ (pending_exit' = NoOrder /\ RLt(R(0), cfg.trailing_pct)) =>
                   IF side = "BUY"
                   THEN RLt(TrailLevel(side, best', entry_price), R(row.low))
                   ELSE RLt(R(row.high), TrailLevel(side, best', entry_price))]_vars

\* C30 witness: a long position's best price rose above its entry price, a
\* trailing stop was scheduled at the level below the raised best with one
\* bar of latency, and the following bar, on which that exit is pending,
\* has left best as it was.
C30_Witness ==
    /\ pc = "loop"
    /\ side = "BUY"
    /\ cfg.exit_latency_bars = 1
    /\ pending_exit # NoOrder
    /\ pending_exit.reason = "TrailingStop"
    /\ pending_exit.remaining = 0
    /\ pending_exit.submitted_time < row.time
    /\ RLt(entry_price, best)
    /\ pending_exit.intended_price = RSub(best, RMul(cfg.trailing_pct, entry_price))

\* The five states of position and pending orders
FlatIdle == side = None /\ pending_entry = NoOrder /\ pending_exit = NoOrder
FlatWithEntry == side = None /\ pending_entry # NoOrder /\ pending_exit = NoOrder
OpenIdle == side # None /\ pending_entry = NoOrder /\ pending_exit = NoOrder
OpenWithExit == side # None /\ pending_entry = NoOrder /\ pending_exit # NoOrder
OpenReversing == side # None /\ pending_entry # NoOrder /\ pending_exit # NoOrder

\* A pending exit exists only while a position is open, and a pending entry
\* accompanies an open position only together with a pending exit
PendingOrdersConsistent ==
    /\ pending_exit # NoOrder => side # None
    /\ (pending_entry # NoOrder /\ side # None) => pending_exit # NoOrder

\* C31 (as stated): at every point of every run, the end of the run
\* included, a pending exit exists only while a position is open and a
\* pending entry coexists with an open position only while a pending exit
\* exists.
C31_PendingOrdersAnywhere == PendingOrdersConsistent

\* C31 (amended): pending-order state invariant. At every point of the bar
\* loop a pending exit exists only while a position is open, and a pending
\* entry coexists with an open position only while a pending exit also
\* exists, so the engine is in one of five states: flat, flat with pending
\* entry, open, open with pending exit, open with pending exit and pending
\* entry. The close at the end of the data leaves a pending exit it
\* overtakes in place, without effect on the result.
C31_PendingOrders ==
    /\ pc # "done" =>
          /\ PendingOrdersConsistent
          /\ FlatIdle \/ FlatWithEntry \/ OpenIdle \/ OpenWithExit \/ OpenReversing
    /\ pc = "done" => side = None

\* C31 witness: at a bar boundary a reversal is in progress: the position
\* is open with a pending ReverseSignal exit and a pending entry of the
\* other side, both waiting out their latency.
C31_Witness ==
    /\ pc = "loop"
    /\ OpenReversing
    /\ pending_exit.reason = "ReverseSignal"
    /\ pending_entry.reason = "ReverseSignal"
    /\ pending_entry.side # side
    /\ pending_exit.remaining > 0

IsFillEv(e) == e.type = "fill"
IsTradeClosedEv(e) == e.type = "trade_closed"

\* The Fill events and the TradeClosed events of the log, in log order
FillsOfLog == SelectSeq(internal_events, IsFillEv)
TradeClosedOfLog == SelectSeq(internal_events, IsTradeClosedEv)

\* Trade number k is the round trip of the k-th OPEN/CLOSE pair of fills
\* and of the k-th TradeClosed event
TradeMatchesFills(k) ==
    LET opened == FillsOfLog[2 * k - 1]
        closed == FillsOfLog[2 * k]
        tc == TradeClosedOfLog[k]
        tr == trades[k]
    IN  /\ opened.action = "OPEN" /\ closed.action = "CLOSE"
        /\ tr.side = opened.side /\ tr.side = closed.side /\ tr.side = tc.side
        /\ tr.size = opened.qty /\ tr.size = closed.qty /\ tr.size = tc.qty
        /\ tr.entry_price = opened.price /\ tr.entry_price = tc.entry_price
        /\ tr.exit_price = closed.price /\ tr.exit_price = tc.exit_price
        /\ tr.exit_time = closed.time /\ tr.exit_time = tc.time
        /\ tr.entry_time = opened.time
        /\ tr.pnl = tc.pnl /\ tr.reason = closed.reason

\* C32: fills and trades match up. In every finished run the Fill events
\* alternate OPEN, CLOSE, ..., starting with OPEN and ending with CLOSE;
\* there are as many Fill(OPEN) events as Fill(CLOSE) events, TradeClosed
\* events and returned trades; and the k-th trade has the side, size and
\* prices of the k-th OPEN/CLOSE pair. During a run the log is a prefix
\* of such a log: one more OPEN than CLOSE exactly while a position is
\* open.
C32_FillsMatchTrades ==
    /\ Len(TradeClosedOfLog) = Len(trades)
    /\ Len(FillsOfLog) = 2 * Len(trades) + (IF side = None THEN 0 ELSE 1)
    /\ \A k \in 1..Len(trades) : TradeMatchesFills(k)
    /\ side # None =>
          LET opened == FillsOfLog[Len(FillsOfLog)]
          IN  opened.action = "OPEN" /\ opened.side = side /\ opened.qty = size
              /\ opened.price = entry_price
    /\ pc = "done" =>
          /\ side = None
          /\ Len(FillsOfLog) = 2 * Len(trades)
          /\ Cardinality({k \in 1..NEvents : IsFill(Ev(k), "OPEN")}) = Len(trades)
          /\ Cardinality({k \in 1..NEvents : IsFill(Ev(k), "CLOSE")}) = Len(trades)

\* C32 witness: a finished run with two or more trades of both sides, filled
\* with slippage, the last one closed at the end of the data.
C32_Witness ==
    /\ pc = "done"
    /\ Len(trades) >= 2
    /\ Len(FillsOfLog) = 2 * Len(trades)
    /\ trades[1].side # trades[2].side
    /\ RLt(R(0), cfg.entry_slippage_bps)
    /\ trades[Len(trades)].reason = "EndOfData"
    /\ FillsOfLog[1].price # FillsOfLog[1].intended_price

\* C33: event times never go backwards. On bars of increasing time, along
\* the event log in emission order, the time of each event is greater than
\* or equal to the time of the event before it, for every latency setting,
\* the Fill(OPEN) events stamped with their submission time included.
C33_TimesNeverGoBack ==
    StrictlyIncreasingBars =>
        \A k \in 2..NEvents : Ev(k - 1).time <= Ev(k).time

\* ---------------------------------------------------------------------
\* The application's position panel: the position rebuilt from the fills
\* view.  An OPEN or REVERSE row sets the position, a CLOSE row clears it,
\* and the rows are read in the order of the view.
NoPosition == [none |-> TRUE]

RECURSIVE PositionAfterRows(_, _, _)
PositionAfterRows(fills, i, pos) ==
    IF i > Len(fills) THEN pos
    ELSE LET r == fills[i]
         IN  IF r.action \in {"OPEN", "REVERSE"}
             THEN PositionAfterRows(fills, i + 1,
                      [side  |-> IF r.side = None THEN "" ELSE r.side,
                       entry |-> r.price,
                       qty   |-> FloatOrZero(r.qty),
                       time  |-> r.time])
             ELSE IF r.action = "CLOSE"
             THEN PositionAfterRows(fills, i + 1, NoPosition)
             ELSE PositionAfterRows(fills, i + 1, pos)

latest_position_from_fills(fills) ==
    IF fills = <<>> THEN NoPosition ELSE PositionAfterRows(fills, 1, NoPosition)

\* The wire form of the events emitted so far
WireSoFar == [k \in 1..NEvents |-> to_wire(Ev(k))]

\* The position the replay shows with the cursor on the last event emitted
ReplayedPosition == latest_position_from_fills(fills_upto(WireSoFar, NEvents - 1))

\* The replayed position has the side, entry price and quantity the engine holds
ReplayedIsHeld ==
    IF side = None THEN ReplayedPosition = NoPosition
    ELSE /\ ReplayedPosition # NoPosition
         /\ ReplayedPosition.side = side
         /\ ReplayedPosition.entry = entry_price
         /\ ReplayedPosition.qty = size

\* C34: at every point of a run, the position rebuilt from the fills view of
\* the events emitted so far is the position the engine holds: flat when the
\* engine is flat, and otherwise the same side, entry price and quantity.
C34_ReplayedPositionIsHeld == NEvents > 0 => ReplayedIsHeld

\* A reversal in progress: the old position is open and its entry is pending
ReversalWaiting == side # None /\ pending_entry # NoOrder

\* The events a step adds to the log
AddedEvents == SubSeq(internal_events', NEvents + 1, Len(internal_events'))

\* The step adds a Fill(OPEN) to the log
AddsOpenFill == \E k \in 1..Len(AddedEvents) : IsFill(AddedEvents[k], "OPEN")

\* The last event of the log is the Fill(CLOSE) of the current bar
ClosedOnThisBar ==
    /\ pc = "entry" /\ side = None /\ NEvents > 0
    /\ IsFill(Ev(NEvents), "CLOSE") /\ Ev(NEvents).time = t

\* C35: while the old position of a reversal is open, its pending entry keeps
\* its full countdown and no step adds a Fill(OPEN); a step that adds a
\* Fill(OPEN) starts flat with a Fill(CLOSE) as the last fill of the log (or
\* with no fill at all); and on the bar on which the close fills, an entry
\* of latency 0 fills and an entry of latency n > 0 goes from n to n - 1.
C35_ReversalEntryWaits ==
    [][/\ ReversalWaiting =>
            /\ pending_entry.remaining = cfg.entry_latency_bars
            /\ pending_entry' = pending_entry
            /\ ~AddsOpenFill
       /\ AddsOpenFill =>
            /\ side = None
            /\ FillsOfLog # <<>> => FillsOfLog[Len(FillsOfLog)].action = "CLOSE"
       /\ (ClosedOnThisBar /\ pending_entry # NoOrder) =>
            /\ pending_entry.remaining = cfg.entry_latency_bars
            /\ IF cfg.entry_latency_bars = 0
               THEN AddsOpenFill /\ side' = pending_entry.side /\ pending_entry' = NoOrder
               ELSE /\ ~AddsOpenFill /\ side' = None
                    /\ pending_entry'.remaining = cfg.entry_latency_bars - 1]_vars

\* The old position of a reversal has closed on this bar and the entry of
\* latency 1, which kept its countdown of 1 while the position was open, has
\* counted down to 0 on the same bar
C35_Witness ==
    /\ cfg.entry_latency_bars = 1
    /\ pc = "signals" /\ side = None
    /\ NEvents > 0 /\ IsFill(Ev(NEvents), "CLOSE")
    /\ Ev(NEvents).reason = "ReverseSignal" /\ Ev(NEvents).time = t
    /\ pending_entry # NoOrder
    /\ pending_entry.reason = "ReverseSignal" /\ pending_entry.remaining = 0

\* C36 as stated: every Fill(OPEN) whose reason is ReverseSignal is directly
\* preceded, among the Fill events of the log, by a Fill(CLOSE) whose reason
\* is also ReverseSignal.
C36_ReverseEntryAfterReverseClose ==
    \A k \in 1..Len(FillsOfLog) :
        (FillsOfLog[k].action = "OPEN" /\ FillsOfLog[k].reason = "ReverseSignal") =>
            /\ k > 1
            /\ FillsOfLog[k - 1].action = "CLOSE"
            /\ FillsOfLog[k - 1].reason = "ReverseSignal"

\* The reasons of the exits scheduled by the exit checks
ProtectiveReasons == {"StopLoss", "TakeProfit", "TrailingStop"}

\* C36: every Fill(OPEN) whose reason is ReverseSignal is directly preceded,
\* among the Fill events of the log, by a Fill(CLOSE) of the opposite side's
\* position. The reason of that CLOSE is ReverseSignal when exits have
\* latency 0; with exit latency > 0 it is ReverseSignal or the reason of the
\* stop, take or trailing exit that was already pending when the reversing
\* signal arrived.
C36_ReverseEntryAfterClose ==
    \A k \in 1..Len(FillsOfLog) :
        (FillsOfLog[k].action = "OPEN" /\ FillsOfLog[k].reason = "ReverseSignal") =>
            /\ k > 1
            /\ FillsOfLog[k - 1].action = "CLOSE"
            /\ FillsOfLog[k - 1].side # FillsOfLog[k].side
            /\ FillsOfLog[k - 1].reason \in ProtectiveReasons \cup {"ReverseSignal"}
            /\ cfg.exit_latency_bars = 0 => FillsOfLog[k - 1].reason = "ReverseSignal"

\* With exit latency 1 a position was closed by its pending stop and the
\* entry of the reversing signal that arrived meanwhile has filled
C36_Witness ==
    /\ cfg.exit_latency_bars = 1
    /\ Len(FillsOfLog) >= 3
    /\ FillsOfLog[2].action = "CLOSE" /\ FillsOfLog[2].reason = "StopLoss"
    /\ FillsOfLog[3].action = "OPEN" /\ FillsOfLog[3].reason = "ReverseSignal"

\* The position of the last Bar event in the log
LastBarIndex ==
    IF \E k \in 1..NEvents : Ev(k).type = "bar"
    THEN CHOOSE k \in 1..NEvents :
            Ev(k).type = "bar" /\ \A j \in (k + 1)..NEvents : Ev(j).type # "bar"
    ELSE 0

\* A signal was consumed on the last bar
SignalOnLastBar == \E k \in (LastBarIndex + 1)..NEvents : Ev(k).type = "signal"

\* No Fill(OPEN) follows a Signal event of the last bar
NoOpenAfterLastSignals ==
    \A j \in (LastBarIndex + 1)..NEvents : \A k \in (j + 1)..NEvents :
        Ev(j).type = "signal" => ~IsFill(Ev(k), "OPEN")

\* C37: when the bars run out with an entry still pending, the step that
\* ends the run adds no Fill(OPEN); if the engine is flat it adds no trade and
\* changes neither the equity nor the curve, and if the old position of a
\* reversal is still open the only trade it adds is that position's
\* EndOfData close. In the finished log no Fill(OPEN) follows a signal
\* consumed on the last bar.
C37_UnfilledEntryDropped ==
    [][pc' = "done" =>
          /\ pending_entry # NoOrder =>
                /\ ~AddsOpenFill
                /\ side' = None
                /\ IF side = None
                   THEN trades' = trades /\ equity' = equity /\ curve' = curve
                        /\ internal_events' = internal_events
                   ELSE /\ Len(trades') = Len(trades) + 1
                        /\ trades'[Len(trades')].reason = "EndOfData"
                        /\ trades'[Len(trades')].side = side
          /\ NoOpenAfterLastSignals']_vars

\* The run ended flat with the entry of a signal consumed on the last bar
\* still pending: nothing was ever filled and the curve is flat
C37_Witness ==
    /\ pc = "done" /\ pending_entry # NoOrder /\ SignalOnLastBar
    /\ pending_entry.submitted_time = df[Len(df)].time
    /\ Len(df) >= 2
    /\ FillsOfLog = <<>> /\ trades = <<>>
    /\ \A k \in 1..Len(curve) : curve[k] = StartEquity(cfg)

-----------------------------------------------------------------------------
(* backtest: the wrapper that runs the engine without recording events *)

\* Configurations of the runs that are repeated without events: the plain
\* one and the one with trailing stop, slippage and latency on both sides
LegacyCfgs ==
    {SmallCfg,
     [SmallCfg EXCEPT !.trailing_pct = Rat(1, 20),
                      !.entry_slippage_bps = R(1000), !.exit_slippage_bps = R(1000),
                      !.entry_latency_bars = 1, !.exit_latency_bars = 1]}

LegacyInit == InitFor(LegacyCfgs)

\* backtest(df, signals, cfg) after backtest_with_events(df, signals, cfg) has
\* returned: the same engine function is entered with emit_events=False
backtest ==
    /\ pc = "done"
    /\ first_run = NoRun
    /\ first_run' = ReturnedRun
    /\ emit_events' = FALSE
    /\ signals' = SortedByTime(sig_input)
    /\ df' = <<>>
    /\ sig_i' = 0
    /\ equity' = StartEquity(cfg)
    /\ curve' = <<>>
    /\ trades' = <<>>
    /\ internal_events' = <<>>
    /\ Flat
    /\ pending_entry' = NoOrder
    /\ pending_exit' = NoOrder
    /\ pc' = "loop"
    /\ wire_events' = <<>>
    /\ UNCHANGED <<cfg, sig_input>>
    /\ UNCHANGED <<replayVars, sharedVars, surfaceVars, jsonlVars>>

LegacyNext ==
    \/ RerunBarStart
    \/ ExecPendingExit
    \/ ExecPendingEntry
    \/ ConsumeSignal
    \/ ExitChecks
    \/ RerunFinish
    \/ backtest

LegacySpec == LegacyInit /\ [][LegacyNext]_vars

\* C38: a run with emit_events=False, which is what backtest makes, records
\* no event, returns an empty event list, and returns exactly the trades and
\* the equity curve that the run with emit_events=True returned for the same
\* bars, signals and config.
C38_EmissionHasNoEffect ==
    /\ first_run = NoRun => emit_events
    /\ first_run # NoRun =>
          /\ ~emit_events
          /\ internal_events = <<>>
          /\ wire_events = <<>>
          /\ pc = "done" =>
                /\ df = first_run.df
                /\ trades = first_run.trades
                /\ curve = first_run.curve

\* A run without events has finished on a full series with two trades, one
\* of which changed equity, where the run with events returned a log
C38_Witness ==
    /\ first_run # NoRun
    /\ pc = "done"
    /\ Len(df) = MaxBars
    /\ Len(trades) >= 2
    /\ equity # cfg.initial_equity
    /\ Len(first_run.wire_events) > 2 * MaxBars
    /\ wire_events = <<>>

-----------------------------------------------------------------------------
(* v10 engine: backtest_with_events with immediate execution *)

\* The locals of the v10 function before its loop
v10_start(cf) ==
    [equity |-> cf.initial_equity, curve |-> <<>>, trades |-> <<>>, sig_i |-> 0,
     side |-> None, entry_time |-> NoTime, entry_price |-> R(0), size |-> R(0),
     stop |-> R(0), take |-> R(0), best |-> R(0)]

\* open_pos: no position is opened when the stop distance is not positive
v10_open_pos(ps, cf, et, s, price, eq) ==
    LET risk_dollars == RMul(eq, cf.risk_per_trade)
        sl_dist == RMul(cf.stop_loss_pct, price)
    IN  IF RLe(sl_dist, R(0)) THEN ps
        ELSE [ps EXCEPT
                !.side = s,
                !.entry_time = et,
                !.entry_price = price,
                !.size = RDiv(risk_dollars, sl_dist),
                !.stop = IF s = "BUY" THEN RSub(price, sl_dist) ELSE RAdd(price, sl_dist),
                !.take = IF s = "BUY" THEN RAdd(price, RMul(cf.take_profit_pct, price))
                         ELSE RSub(price, RMul(cf.take_profit_pct, price)),
                !.best = price]

\* close_pos
v10_close_pos(ps, xt, price, reason) ==
    IF ps.side = None THEN ps
    ELSE LET pnl == pos_pnl(ps.side, ps.entry_price, price, ps.size)
         IN  [ps EXCEPT
                !.equity = RAdd(@, pnl),
                !.trades = Append(@, Trade(ps.entry_time, ps.side, ps.entry_price,
                                           ps.size, xt, price, pnl, reason)),
                !.side = None, !.entry_time = NoTime, !.entry_price = R(0),
                !.size = R(0), !.stop = R(0), !.take = R(0), !.best = R(0)]

\* consume any signals <= this bar time: a signal met while flat opens at
\* once, an opposite signal closes at the bar's close and opens at once
RECURSIVE v10_signals(_, _, _, _)
v10_signals(ps, cf, sigs, b) ==
    IF ps.sig_i < Len(sigs) /\ sigs[ps.sig_i + 1][1] <= b.time
    THEN LET st == sigs[ps.sig_i + 1][1]
             sside == Upper(sigs[ps.sig_i + 1][2])
             sprice == R(sigs[ps.sig_i + 1][3])
             p1 == [ps EXCEPT !.sig_i = @ + 1]
             closed == v10_close_pos(p1, b.time, R(b.close), "ReverseSignal")
             p2 == IF p1.side = None
                   THEN v10_open_pos(p1, cf, st, sside, sprice, p1.equity)
                   ELSE IF cf.allow_reverse /\ p1.side # sside
                   THEN v10_open_pos(closed, cf, st, sside, sprice, closed.equity)
                   ELSE p1
         IN  v10_signals(p2, cf, sigs, b)
    ELSE ps

\* exit checks: the position is closed on the bar that hits the level
v10_exit_checks(ps, cf, b) ==
    IF ps.side = None THEN ps
    ELSE LET lo == R(b.low)
             hi == R(b.high)
             best2 == IF ps.side = "BUY" THEN RMax(ps.best, hi) ELSE RMin(ps.best, lo)
             p1 == [ps EXCEPT !.best = best2]
             hit_stop == IF ps.side = "BUY" THEN RLe(lo, ps.stop) ELSE RLe(ps.stop, hi)
             hit_take == IF ps.side = "BUY" THEN RLe(ps.take, hi) ELSE RLe(lo, ps.take)
             trail_dist == RMul(cf.trailing_pct, ps.entry_price)
             trail == IF ps.side = "BUY" THEN RSub(best2, trail_dist)
                      ELSE RAdd(best2, trail_dist)
             hit_trail == IF ps.side = "BUY" THEN RLe(lo, trail) ELSE RLe(trail, hi)
         IN  IF hit_stop THEN v10_close_pos(p1, b.time, ps.stop, "StopLoss")
             ELSE IF hit_take THEN v10_close_pos(p1, b.time, ps.take, "TakeProfit")
             ELSE IF ~IsZero(cf.trailing_pct) /\ RLt(R(0), cf.trailing_pct) /\ hit_trail
             THEN v10_close_pos(p1, b.time, trail, "TrailingStop")
             ELSE p1

\* One iteration of the loop, ending with curve.append(equity)
v10_bar(ps, cf, sigs, b) ==
    LET p1 == v10_exit_checks(v10_signals(ps, cf, sigs, b), cf, b)
    IN  [p1 EXCEPT !.curve = Append(@, p1.equity)]

RECURSIVE v10_loop(_, _, _, _, _)
v10_loop(ps, cf, sigs, bars, i) ==
    IF i > Len(bars) THEN ps
    ELSE v10_loop(v10_bar(ps, cf, sigs, bars[i]), cf, sigs, bars, i + 1)

\* The v10 function: the loop, then the close at end; trades and curve are
\* what it returns
v10_backtest(bars, sigs, cf) ==
    LET p1 == v10_loop(v10_start(cf), cf, SortedByTime(sigs), bars, 1)
    IN  IF p1.side = None THEN [trades |-> p1.trades, curve |-> p1.curve]
        ELSE LET last == bars[Len(bars)]
                 p2 == v10_close_pos(p1, last.time, R(last.close), "EndOfData")
             IN  [trades |-> p2.trades,
                  curve |-> [p2.curve EXCEPT ![Len(p2.curve)] = p2.equity]]

\* C39: with entry and exit slippage 0 and entry and exit latency 0, a
\* finished run of the pending-order engine has the trade list and the equity
\* curve that the v10 immediate-execution engine returns for the same bars,
\* signals and remaining config.
C39_SameAsV10 ==
    (pc = "done" /\ ZeroSlippageZeroLatency) =>
        /\ trades = v10_backtest(df, sig_input, cfg).trades
        /\ curve = v10_backtest(df, sig_input, cfg).curve

====
